---- MODULE Spec2Model ----
(***************************************************************************)
(* Archival integrity and provenance subsystem of eArchiwum: account       *)
(* lockout, file registration and versioning, fixity verification, the     *)
(* audit ledger and soft delete, over a PostgreSQL store (schema.sql).     *)
(*                                                                         *)
(* Store semantics assumed (READ COMMITTED): a statement sent through      *)
(* db.query runs on its own pool connection and commits by itself; a       *)
(* statement sent through the client of withTransaction is pending until   *)
(* COMMIT and is invisible to every other connection until then.           *)
(* TIMESTAMP values are taken to round-trip the instant they were written  *)
(* with (process time zone UTC).                                           *)
(***************************************************************************)
EXTENDS Integers, Sequences, FiniteSets, TLC

\* ------------------------------------------------------------------ bounds
MaxTicks == 4          \* the clock stops after this many ticks
MaxAttempts == 6       \* failed_login_attempts is not incremented beyond this

\* --------------------------------------------------------------- constants
NULL == 0 - 1                          \* SQL NULL of a nullable column
LOCKOUT_THRESHOLD == 5
LOCKOUT_DURATION_MS == 15 * 60 * 1000
TickMs == 5 * 60 * 1000                \* granularity of the modelled clock

LockoutReason == "Brute-force protection: too many failed login attempts"
NoReason == "NULL"

UserNames == {"alice", "nobody"}       \* usernames a caller may pass
Existing == {"alice"}                  \* rows of table users
LProcs == {"p1", "p2"}                 \* concurrent requests

VARIABLES
  now,      \* the clock (Date.now(), ms)
  users,    \* users rows: failed_login_attempts, locked_until, lockout_reason
  lk,       \* per request: position and locals of a lockout-service call
  lret,     \* the call that returned last and what it returned
  hist      \* history of each identity since it was last Clear

lockoutVars == <<users, lk, lret, hist>>

\* a users row as inserted (schema defaults)
ClearRow == [failed_login_attempts |-> 0, locked_until |-> NULL, lockout_reason |-> NoReason]

IdleL == [pc |-> "idle", user |-> "nobody", attempts |-> 0, lockedUntil |-> NULL, at |-> 0,
          hk |-> NULL, hat |-> 0]

\* op returned ret for user; the call read the clock at `at` and locked_until as
\* lockedUntil; hk and hat are SeqCount and the time of the last attempt at that read
\* a LockoutInfo is ret (isLocked), attempts (failedAttempts) and lockedUntil
NoReturn == [op |-> "none", user |-> "nobody", ret |-> "none", at |-> 0,
             lockedUntil |-> NULL, hk |-> NULL, hat |-> 0, attempts |-> 0]

FreshHist == [k |-> 0, at |-> 0, seq |-> TRUE, clean |-> TRUE]
Tainted == [k |-> 0, at |-> 0, seq |-> FALSE, clean |-> FALSE]

\* what has been recorded for u since it was last Clear, when that history is a
\* plain sequence of failed attempts (no overlap, no expiry, no clear under way);
\* NULL otherwise
SeqCount(u) == IF hist[u].seq /\ hist[u].clean THEN hist[u].k ELSE NULL

InitLockout ==
  /\ users = [u \in Existing |-> ClearRow]
  /\ lk = [p \in LProcs |-> IdleL]
  /\ lret = NoReturn
  /\ hist = [u \in Existing |-> FreshHist]

\* some other request is between the read and the write of a call on u
InFlight(u, p) == \E q \in LProcs \ {p} : lk[q].pc # "idle" /\ lk[q].user = u

\* ------------------------------------------------- AccountLockoutService
\* recordFailedAttempt, lines 23-44: the two SELECTs and now = Date.now()
RfaRead(p, u) ==
  /\ lk[p].pc = "idle"
  /\ IF u \notin Existing
       THEN /\ lret' = [NoReturn EXCEPT !.op = "recordFailedAttempt", !.user = u,
                                        !.ret = "no_user"]
            /\ UNCHANGED <<lk, hist>>
       ELSE /\ users[u].failed_login_attempts < MaxAttempts
            /\ hist[u].k < MaxAttempts
            /\ lk' = [lk EXCEPT ![p] = [IdleL EXCEPT !.pc = "rfa_write", !.user = u,
                                          !.attempts = users[u].failed_login_attempts,
                                          !.lockedUntil = users[u].locked_until,
                                          !.at = now]]
            /\ hist' = [hist EXCEPT ![u].seq = @ /\ ~InFlight(u, p)]
            /\ UNCHANGED lret
  /\ UNCHANGED <<users, now>>

\* the lock that was read has expired (line 47-49)
RfaExpired(lockedUntil, at) == lockedUntil # NULL /\ at > lockedUntil

\* RfaRow locking only once the threshold is exceeded
RfaRowAboveThreshold(attempts, lockedUntil, at) ==
  IF RfaExpired(lockedUntil, at)
    THEN [failed_login_attempts |-> 1, locked_until |-> NULL, lockout_reason |-> NoReason]
    ELSE IF attempts + 1 > LOCKOUT_THRESHOLD
      THEN [failed_login_attempts |-> attempts + 1,
            locked_until |-> at + LOCKOUT_DURATION_MS, lockout_reason |-> LockoutReason]
      ELSE [failed_login_attempts |-> attempts + 1,
            locked_until |-> NULL, lockout_reason |-> NoReason]

\* the row recordFailedAttempt writes (lines 47-86)
RfaRow(attempts, lockedUntil, at) ==
  IF RfaExpired(lockedUntil, at)
    THEN [failed_login_attempts |-> 1, locked_until |-> NULL, lockout_reason |-> NoReason]
    ELSE LET newAttempts == attempts + 1
         IN IF newAttempts >= LOCKOUT_THRESHOLD
              THEN [failed_login_attempts |-> newAttempts,
                    locked_until |-> at + LOCKOUT_DURATION_MS,
                    lockout_reason |-> LockoutReason]
              ELSE [failed_login_attempts |-> newAttempts,
                    locked_until |-> NULL, lockout_reason |-> NoReason]

\* recordFailedAttempt, the UPDATE (lines 51-59 or 78-86)
RfaWrite(p) ==
  /\ lk[p].pc = "rfa_write"
  /\ LET u == lk[p].user
     IN /\ users' = [users EXCEPT ![u] = RfaRow(lk[p].attempts, lk[p].lockedUntil, lk[p].at)]
        /\ hist' = [hist EXCEPT ![u] =
                      IF ~hist[u].clean \/ RfaExpired(lk[p].lockedUntil, lk[p].at)
                        THEN Tainted
                        ELSE [@ EXCEPT !.k = @ + 1, !.at = lk[p].at]]
        /\ lret' = [NoReturn EXCEPT !.op = "recordFailedAttempt", !.user = u,
                                    !.ret = "recorded", !.at = lk[p].at]
        /\ lk' = [lk EXCEPT ![p] = IdleL]
  /\ UNCHANGED now

\* isAccountLocked, lines 98-119: the SELECT and the comparison with new Date()
IsLockedCheck(p, u) ==
  /\ lk[p].pc = "idle"
  /\ IF u \notin Existing
       THEN /\ lret' = [NoReturn EXCEPT !.op = "isAccountLocked", !.user = u,
                                        !.ret = "false", !.at = now]
            /\ UNCHANGED <<lk, hist>>
       ELSE LET r == [NoReturn EXCEPT !.op = "isAccountLocked", !.user = u, !.at = now,
                                      !.lockedUntil = users[u].locked_until,
                                      !.hk = SeqCount(u), !.hat = hist[u].at]
            IN IF users[u].locked_until = NULL
                 THEN /\ lret' = [r EXCEPT !.ret = "false"]
                      /\ UNCHANGED <<lk, hist>>
                 ELSE IF now < users[u].locked_until
                   THEN /\ lret' = [r EXCEPT !.ret = "true"]
                        /\ UNCHANGED <<lk, hist>>
                   ELSE /\ lk' = [lk EXCEPT ![p] = [IdleL EXCEPT !.pc = "isl_unlock",
                                     !.user = u, !.lockedUntil = users[u].locked_until,
                                     !.at = now, !.hk = SeqCount(u), !.hat = hist[u].at]]
                        /\ hist' = [hist EXCEPT ![u].seq = @ /\ ~InFlight(u, p)]
                        /\ UNCHANGED lret
  /\ UNCHANGED <<users, now>>

\* IsLockedUnlock clearing the lock and leaving the counter as it is
IsLockedUnlockKeepsCounter(p) ==
  /\ lk[p].pc = "isl_unlock"
  /\ users' = [users EXCEPT ![lk[p].user].locked_until = NULL,
                            ![lk[p].user].lockout_reason = NoReason]
  /\ hist' = [hist EXCEPT ![lk[p].user] = Tainted]
  /\ lret' = [op |-> "isAccountLocked", user |-> lk[p].user, ret |-> "false",
              at |-> lk[p].at, lockedUntil |-> lk[p].lockedUntil,
              hk |-> lk[p].hk, hat |-> lk[p].hat, attempts |-> 0]
  /\ lk' = [lk EXCEPT ![p] = IdleL]
  /\ UNCHANGED now

\* isAccountLocked, lines 121-132: the lazy unlock and return false
IsLockedUnlock(p) ==
  /\ lk[p].pc = "isl_unlock"
  /\ users' = [users EXCEPT ![lk[p].user] = ClearRow]
  /\ hist' = [hist EXCEPT ![lk[p].user] = Tainted]
  /\ lret' = [op |-> "isAccountLocked", user |-> lk[p].user, ret |-> "false",
              at |-> lk[p].at, lockedUntil |-> lk[p].lockedUntil,
              hk |-> lk[p].hk, hat |-> lk[p].hat, attempts |-> 0]
  /\ lk' = [lk EXCEPT ![p] = IdleL]
  /\ UNCHANGED now

\* getLockoutInfo, lines 144-162 (and 178-184 when no UPDATE is due): the SELECT,
\* new Date() and isLocked; no row gives null
GliRead(p, u) ==
  /\ lk[p].pc = "idle"
  /\ IF u \notin Existing
       THEN /\ lret' = [NoReturn EXCEPT !.op = "getLockoutInfo", !.user = u,
                                        !.ret = "null", !.at = now]
            /\ UNCHANGED <<lk, hist>>
       ELSE LET lockedUntil == users[u].locked_until
                isLocked == IF lockedUntil # NULL THEN now < lockedUntil ELSE FALSE
            IN IF ~isLocked /\ lockedUntil # NULL
                 THEN /\ lk' = [lk EXCEPT ![p] = [IdleL EXCEPT !.pc = "gli_unlock",
                                     !.user = u, !.lockedUntil = lockedUntil, !.at = now,
                                     !.attempts = users[u].failed_login_attempts]]
                      /\ hist' = [hist EXCEPT ![u].seq = @ /\ ~InFlight(u, p)]
                      /\ UNCHANGED lret
                 ELSE /\ lret' = [NoReturn EXCEPT !.op = "getLockoutInfo", !.user = u,
                                     !.ret = IF isLocked THEN "true" ELSE "false",
                                     !.at = now, !.lockedUntil = lockedUntil,
                                     !.attempts = users[u].failed_login_attempts]
                      /\ UNCHANGED <<lk, hist>>
  /\ UNCHANGED <<users, now>>

\* GliUnlock clearing the lock and leaving the counter as it is
GliUnlockKeepsCounter(p) ==
  /\ lk[p].pc = "gli_unlock"
  /\ users' = [users EXCEPT ![lk[p].user].locked_until = NULL,
                            ![lk[p].user].lockout_reason = NoReason]
  /\ hist' = [hist EXCEPT ![lk[p].user] = Tainted]
  /\ lret' = [NoReturn EXCEPT !.op = "getLockoutInfo", !.user = lk[p].user,
                              !.ret = "false", !.at = lk[p].at,
                              !.lockedUntil = lk[p].lockedUntil,
                              !.attempts = lk[p].attempts]
  /\ lk' = [lk EXCEPT ![p] = IdleL]
  /\ UNCHANGED now

\* getLockoutInfo, lines 165-184: the lazy unlock, then the LockoutInfo built from
\* the row as it was read
GliUnlock(p) ==
  /\ lk[p].pc = "gli_unlock"
  /\ users' = [users EXCEPT ![lk[p].user] = ClearRow]
  /\ hist' = [hist EXCEPT ![lk[p].user] = Tainted]
  /\ lret' = [NoReturn EXCEPT !.op = "getLockoutInfo", !.user = lk[p].user,
                              !.ret = "false", !.at = lk[p].at,
                              !.lockedUntil = lk[p].lockedUntil,
                              !.attempts = lk[p].attempts]
  /\ lk' = [lk EXCEPT ![p] = IdleL]
  /\ UNCHANGED now

\* ResetToClear setting the counter to 0 and leaving the lock as it is
ResetCounterOnly(u) ==
  /\ users' = [users EXCEPT ![u].failed_login_attempts = 0]
  /\ hist' = [hist EXCEPT ![u] = Tainted]
  /\ lret' = [NoReturn EXCEPT !.op = "reset", !.user = u, !.ret = "cleared", !.at = now,
                              !.lockedUntil = users[u].locked_until]
  /\ UNCHANGED <<lk, now>>

\* clearFailedAttempts (lines 191-217) and unlockAccount (lines 222-239): one UPDATE;
\* at and lockedUntil tell the clock and the lock of the row the UPDATE found
ResetToClear(u) ==
  /\ users' = [users EXCEPT ![u] = ClearRow]
  /\ hist' = [hist EXCEPT ![u] = IF \E q \in LProcs : lk[q].pc # "idle" /\ lk[q].user = u
                                   THEN Tainted
                                   ELSE FreshHist]
  /\ lret' = [NoReturn EXCEPT !.op = "reset", !.user = u, !.ret = "cleared", !.at = now,
                              !.lockedUntil = users[u].locked_until]
  /\ UNCHANGED <<lk, now>>

ClearFailedAttempts(u) == u \in Existing /\ ResetToClear(u)

UnlockAccount(u) == u \in Existing /\ ResetToClear(u)

\* AuthService.login (part_011 292-350) for a user that is active, run with no
\* other request in between. infoOk = FALSE is the SELECT of getLockoutInfo
\* failing: its catch block returns null (part_009 181-184) and login goes on as for
\* an identity that is not locked. lockedUntil and attempts tell the row login found.
Login(u, passwordOk, infoOk) ==
  /\ \A p \in LProcs : lk[p].pc = "idle"
  /\ IF u \notin Existing
       THEN /\ lret' = [NoReturn EXCEPT !.op = "login", !.user = u, !.at = now,
                                        !.ret = "user_not_found"]
            /\ UNCHANGED <<users, hist>>
       ELSE LET row == users[u]
                isLocked == infoOk /\ row.locked_until # NULL /\ now < row.locked_until
                \* the row after getLockoutInfo
                seen == IF infoOk /\ ~isLocked /\ row.locked_until # NULL
                          THEN ClearRow ELSE row
                R(v) == [NoReturn EXCEPT !.op = "login", !.user = u, !.at = now,
                                         !.ret = v, !.lockedUntil = row.locked_until,
                                         !.attempts = row.failed_login_attempts]
            IN IF isLocked
                 THEN /\ lret' = R("locked")
                      /\ UNCHANGED <<users, hist>>
               ELSE IF ~passwordOk
                 THEN /\ seen.failed_login_attempts < MaxAttempts
                      /\ users' = [users EXCEPT ![u] =
                            RfaRow(seen.failed_login_attempts, seen.locked_until, now)]
                      /\ hist' = [hist EXCEPT ![u] = Tainted]
                      /\ lret' = R("invalid_password")
               ELSE /\ users' = [users EXCEPT ![u] = ClearRow]
                    /\ hist' = [hist EXCEPT ![u] = Tainted]
                    /\ lret' = R("token")
  /\ UNCHANGED <<lk, now>>

\* the clock
Tick ==
  /\ now < MaxTicks * TickMs
  /\ now' = now + TickMs

\* ============================================================== the archive
\* ------------------------------------------------------------------ bounds
MaxAudit == 7
MaxLedgerTicks == 1          \* no request starts that could take audit_log beyond this
MaxVersion == 3        \* createVersion is not started at this current_version
MaxEvents == 3         \* nor once a PREMIS record holds this many events

Seeded == {"f1", "f2"}                 \* files rows inserted by schema.sql
FreshIds == {"f3"}                     \* an id gen_random_uuid() has not yet used
FileIds == Seeded \cup FreshIds
Digests == {"h1", "h2", "h3"}          \* SHA-256 values
Paths == {"pa", "pb"}                  \* storage paths
Missing == "missing"                   \* no readable file at a path
Unreadable == "unreadable"     \* content that is there and cannot be opened
VProcs == {"t1", "t2"}                 \* concurrent createVersion requests

\* columns of table audit_log (schema.sql)
AuditLogColumns == {"id", "user_id", "action", "resource_type", "resource_id",
                    "previous_value", "new_value", "reason", "ip_address",
                    "user_agent", "success", "error_message", "created_at"}

VARIABLES
  files,     \* table files, by id
  dc,        \* file ids that have a metadata_dublin_core row
  premis,    \* table metadata_premis, by file id
  versions,  \* table file_versions
  audit,     \* table audit_log, in the order the rows became visible
  disk,      \* digest of the content at each path, or Missing
  cv,        \* per createVersion request: position and locals of its transaction
  rd,        \* the getResourceAuditLog call under way
  calls,     \* per file: createVersion calls that got a number, or lost one to a conflict
  ret        \* the archive call that returned last and what it returned

archiveVars == <<files, dc, premis, versions, audit, disk, cv, rd, calls, ret>>

\* state outside the store
VARIABLES
  enc,       \* EncryptionService: the configured key, the key in use, the last
             \* payload produced and the call that returned last
  sched,     \* SchedulerService: the timers of the event loop, the intervals map
             \* and what the callbacks have done
  re,        \* recordPremisEvent / validateFixity, per calling process: the position
             \* in the call and its locals
  recorded,  \* per file, the recordPremisEvent calls started and completed
  va,        \* verifyAllFiles: the position in the batch and its locals
  dcm,       \* the metadata_dublin_core rows in detail (columns, elements of dc_xml)
             \* and the arguments of the last updateDublinCoreMetadata call
  http       \* the middleware: the store of a rate limiter, the requests each
             \* client has made in its window, and the last response

utilVars == <<enc, sched, re, recorded, va, dcm, http>>

NoErr == <<>>

\* one element of premis_json's premis:events: its premis:eventType and what its
\* premis:eventDetail tells (the outcome of a fixity check and the two digests)
PremisEvent(type, outcome, stored, current) ==
  [type |-> type, outcome |-> outcome, stored |-> stored, current |-> current]

\* an audit_log row; by tells logAction's INSERT from the trigger's
AuditRow(by, action, id, at, err) ==
  [by |-> by, action |-> action, resource_id |-> id, created_at |-> at,
   error_message |-> err]

SeedPath(f) == IF f = "f1" THEN "pa" ELSE "pb"
SeedHash(f) == IF f = "f1" THEN "h1" ELSE "h2"

IdleCv == [pc |-> "idle", fileId |-> "f1", newPath |-> "pa", newHash |-> "h1",
           previousVersion |-> 0, previousHash |-> "h1", started |-> 0,
           events |-> <<>>]

IdleRd == [pc |-> "idle", id |-> "f1", limit |-> 0, offset |-> 0, total |-> 0, len |-> 0]

NoRet == [op |-> "none", id |-> "f1", val |-> "none", num |-> 0, entries |-> <<>>,
          isAccessible |-> FALSE,
          stored |-> "none", current |-> "none", len |-> 0, pre |-> <<>>,
          limit |-> 0, offset |-> 0, len0 |-> 0, err |-> ""]

\* schema.sql: the seed rows of files, metadata_dublin_core and metadata_premis, and
\* the CREATE rows that trigger log_files_change wrote for the seeded files
InitArchive ==
  /\ files = [f \in Seeded |-> [file_hash |-> SeedHash(f), file_path |-> SeedPath(f),
                                current_version |-> 1, is_accessible |-> TRUE,
                                is_deleted |-> FALSE]]
  /\ dc = Seeded
  /\ premis = [f \in Seeded |-> [message_digest |-> SeedHash(f),
                                 events |-> <<PremisEvent("creation", "none", "none", "none")>>]]
  /\ versions = {}
  /\ audit = <<AuditRow("trigger", "CREATE", "f1", 0, NoErr),
               AuditRow("trigger", "CREATE", "f2", 0, NoErr)>>
  /\ disk = [p \in Paths |-> IF p = "pa" THEN "h1" ELSE "h2"]
  /\ cv = [t \in VProcs |-> IdleCv]
  /\ rd = IdleRd
  /\ calls = [f \in FileIds |-> [numbered |-> 0, conflict |-> 0]]
  /\ ret = NoRet

\* ------------------------------------------------------- transaction state
\* t has inserted its file_versions row and not yet committed or rolled back
HasPendingVersion(t) ==
  cv[t].pc \in {"cv_update", "cv_premis_read", "cv_premis_write", "cv_audit", "cv_commit"}

\* t has updated its files row (and holds the row lock)
HasPendingUpdate(t) ==
  cv[t].pc \in {"cv_premis_read", "cv_premis_write", "cv_audit", "cv_commit"}

RowLocked(f) == \E t \in VProcs : HasPendingUpdate(t) /\ cv[t].fileId = f

\* an open transaction is about to give some files row the digest h
HashPending(h) == \E t \in VProcs : HasPendingUpdate(t) /\ cv[t].newHash = h

\* rows every open request may still add to audit_log
AuditRoom(n) ==
  Len(audit) + n + 2 * Cardinality({t \in VProcs : cv[t].pc # "idle"}) <= MaxAudit

\* HashTaken with no UNIQUE constraint on files.file_hash
HashNeverTaken(h, f) == FALSE

\* files.file_hash UNIQUE: h is the digest of a row other than f
HashTaken(h, f) == \E g \in DOMAIN files : g # f /\ files[g].file_hash = h

\* FkFileVisible counting the row the open transaction has inserted
FkFileVisibleInTxn(id) == TRUE

\* the foreign key files(id) as a statement on another connection checks it: only
\* committed rows count
FkFileVisible(id) == id \in DOMAIN files

HasCreateEntry(id) ==
  \E i \in 1..Len(audit) : audit[i].action = "CREATE" /\ audit[i].resource_id = id

Append2(s, a, b) == Append(Append(s, a), b)

\* what a request to the archive leaves alone
Rest == UNCHANGED <<now, lockoutVars, utilVars>>

\* ------------------------------------------------------------ FileService
\* registerFile (files.ts 12-71). The INSERT INTO files runs on the transaction's
\* client; createDublinCoreMetadata, createPremisMetadata and logAction each run
\* their INSERT through db.query, on another connection, and commit by themselves.
\* dbFail names a statement at which the store fails for a reason of its own.
RegisterFile(id, path, hash, dbFail) ==
  /\ id \in FreshIds /\ id \notin DOMAIN files
  /\ AuditRoom(2)
  /\ ~HashPending(hash)
  /\ LET R(v) == [NoRet EXCEPT !.op = "registerFile", !.id = id, !.val = v]
         row == [file_hash |-> hash, file_path |-> path, current_version |-> 1,
                 is_accessible |-> TRUE, is_deleted |-> FALSE]
         pr == [message_digest |-> hash,
                events |-> <<PremisEvent("creation", "none", "none", "none")>>]
     IN IF disk[path] = Missing
          THEN /\ ret' = R("stat_error")
               /\ UNCHANGED <<files, dc, premis, audit>>
        ELSE IF HashTaken(hash, id)
          THEN /\ ret' = R("duplicate_hash")
               /\ UNCHANGED <<files, dc, premis, audit>>
        ELSE IF ~FkFileVisible(id) \/ dbFail = "dc"
          THEN /\ ret' = R(IF dbFail = "dc" THEN "db_error" ELSE "fk_violation")
               /\ UNCHANGED <<files, dc, premis, audit>>
        ELSE IF dbFail = "premis"
          THEN /\ ret' = R("db_error")
               /\ dc' = dc \cup {id}
               /\ UNCHANGED <<files, premis, audit>>
        ELSE IF dbFail = "audit"
          THEN /\ ret' = R("db_error")
               /\ dc' = dc \cup {id}
               /\ premis' = (id :> pr) @@ premis
               /\ UNCHANGED <<files, audit>>
        ELSE /\ dc' = dc \cup {id}
             /\ premis' = (id :> pr) @@ premis
             /\ IF dbFail = "commit"
                  THEN /\ ret' = R("db_error")
                       /\ audit' = Append(audit, AuditRow("logAction", "CREATE", id, now, NoErr))
                       /\ UNCHANGED files
                  ELSE /\ ret' = R("ok")
                       /\ files' = (id :> row) @@ files
                       /\ audit' = Append2(audit,
                                     AuditRow("logAction", "CREATE", id, now, NoErr),
                                     AuditRow("trigger", "CREATE", id, now, NoErr))
  /\ UNCHANGED <<versions, disk, cv, rd, calls>>
  /\ Rest

\* deleteFile (files.ts 292-304): the UPDATE on the transaction's client, logAction
\* through db.query; logOk = FALSE is logAction failing, which rolls the UPDATE back
DeleteFile(f, logOk) ==
  /\ ~RowLocked(f)
  /\ AuditRoom(2)
  /\ IF ~logOk
       THEN /\ ret' = [NoRet EXCEPT !.op = "deleteFile", !.id = f, !.val = "db_error"]
            /\ UNCHANGED <<files, audit>>
       ELSE IF f \in DOMAIN files
         THEN /\ files' = [files EXCEPT ![f].is_deleted = TRUE, ![f].is_accessible = FALSE]
              /\ audit' = Append2(audit, AuditRow("logAction", "DELETE", f, now, NoErr),
                                         AuditRow("trigger", "UPDATE", f, now, NoErr))
              /\ ret' = [NoRet EXCEPT !.op = "deleteFile", !.id = f, !.val = "ok",
                           !.pre = <<files[f].is_accessible, files[f].is_deleted>>]
         ELSE /\ audit' = Append(audit, AuditRow("logAction", "DELETE", f, now, NoErr))
              /\ ret' = [NoRet EXCEPT !.op = "deleteFile", !.id = f, !.val = "ok"]
              /\ UNCHANGED files
  /\ UNCHANGED <<dc, premis, versions, disk, cv, rd, calls>>
  /\ Rest

\* RestoreFile with no trigger on files
RestoreFileNoTrigger(f) ==
  /\ ~RowLocked(f)
  /\ AuditRoom(1)
  /\ IF f \in DOMAIN files
       THEN files' = [files EXCEPT ![f].is_deleted = FALSE, ![f].is_accessible = TRUE]
       ELSE UNCHANGED files
  /\ ret' = [NoRet EXCEPT !.op = "restoreFile", !.id = f, !.val = "ok",
               !.pre = IF ret.op = "deleteFile" /\ ret.id = f /\ ret.val = "ok"
                         THEN ret.pre ELSE <<>>]
  /\ UNCHANGED <<audit, dc, premis, versions, disk, cv, rd, calls>>
  /\ Rest

\* RestoreFile clearing is_deleted and leaving is_accessible as it is
RestoreFileKeepsAccessible(f) ==
  /\ ~RowLocked(f)
  /\ AuditRoom(1)
  /\ IF f \in DOMAIN files
       THEN /\ files' = [files EXCEPT ![f].is_deleted = FALSE]
            /\ audit' = Append(audit, AuditRow("trigger", "UPDATE", f, now, NoErr))
       ELSE UNCHANGED <<files, audit>>
  /\ ret' = [NoRet EXCEPT !.op = "restoreFile", !.id = f, !.val = "ok",
               !.pre = IF ret.op = "deleteFile" /\ ret.id = f /\ ret.val = "ok"
                         THEN ret.pre ELSE <<>>]
  /\ UNCHANGED <<dc, premis, versions, disk, cv, rd, calls>>
  /\ Rest

\* restoreFile (files.ts 309-316); pre carries the flags the file had before the
\* deleteFile call that this call directly follows
RestoreFile(f) ==
  /\ ~RowLocked(f)
  /\ AuditRoom(1)
  /\ IF f \in DOMAIN files
       THEN /\ files' = [files EXCEPT ![f].is_deleted = FALSE, ![f].is_accessible = TRUE]
            /\ audit' = Append(audit, AuditRow("trigger", "UPDATE", f, now, NoErr))
       ELSE UNCHANGED <<files, audit>>
  /\ ret' = [NoRet EXCEPT !.op = "restoreFile", !.id = f, !.val = "ok",
               !.pre = IF ret.op = "deleteFile" /\ ret.id = f /\ ret.val = "ok"
                         THEN ret.pre ELSE <<>>]
  /\ UNCHANGED <<dc, premis, versions, disk, cv, rd, calls>>
  /\ Rest

\* getFile (files.ts 321-327) and getFileWithMetadata (metadata.ts 252-313): a READ
\* row when a user id is passed, then the files row joined with its metadata, or
\* null; logOk = FALSE is the INSERT of logAction failing, which getFile does not catch.
\* The ArchiveFile returned has isAccessible: true (metadata.ts 310)
GetFile(f, withUser, logOk) ==
  /\ IF withUser /\ ~logOk
       THEN /\ ret' = [NoRet EXCEPT !.op = "getFile", !.id = f, !.val = "throws",
                                    !.err = "db_error"]
            /\ UNCHANGED audit
       ELSE /\ IF withUser
                 THEN /\ AuditRoom(1)
                      /\ audit' = Append(audit, AuditRow("logAction", "READ", f, now, NoErr))
                 ELSE UNCHANGED audit
            /\ ret' = [NoRet EXCEPT !.op = "getFile", !.id = f,
                                    !.val = IF f \in DOMAIN files THEN "file" ELSE "null",
                                    !.isAccessible = f \in DOMAIN files]
  /\ UNCHANGED <<files, dc, premis, versions, disk, cv, rd, calls>>
  /\ Rest

\* raiseAlert (monitoring.ts 268-297): the alert row, whose failure is caught
RaiseAlert(severity, logOk) ==
  /\ IF logOk
       THEN /\ AuditRoom(1)
            /\ audit' = Append(audit, AuditRow("logAction", "VALIDATE", severity, now,
                                               <<"alert">>))
       ELSE UNCHANGED audit
  /\ ret' = [NoRet EXCEPT !.op = "raiseAlert", !.id = severity, !.val = "ok"]
  /\ UNCHANGED <<files, dc, premis, versions, disk, cv, rd, calls>>
  /\ Rest

\* the end of a scheduler job (fileStorage.ts 371-388, 437-448): the summary row;
\* when its INSERT fails the catch block writes a failure row instead, and the
\* failure of that one is caught as well
JobSummary(job, logOk, retryOk) ==
  /\ IF logOk \/ retryOk
       THEN /\ AuditRoom(1)
            /\ audit' = Append(audit, AuditRow("logAction",
                                 IF job = "backup_job" THEN "CREATE" ELSE "VALIDATE",
                                 job, now,
                                 IF logOk THEN <<"complete">> ELSE <<"failed">>))
       ELSE UNCHANGED audit
  /\ ret' = [NoRet EXCEPT !.op = "job", !.id = job, !.val = "ok"]
  /\ UNCHANGED <<files, dc, premis, versions, disk, cv, rd, calls>>
  /\ Rest

\* ----------------------------------------------------------- FixityService
FixityError(stored, current) == <<"Fixity check failed", stored, current>>

\* VerifyFile reporting a mismatch without writing the VALIDATE row
VerifyFileNoLog(f) ==
  /\ ret' = IF f \notin DOMAIN files
              THEN [NoRet EXCEPT !.op = "verifyFile", !.id = f, !.val = "false",
                                 !.err = "File not found"]
              ELSE [NoRet EXCEPT !.op = "verifyFile", !.id = f,
                      !.stored = files[f].file_hash, !.current = disk[files[f].file_path],
                      !.val = IF disk[files[f].file_path] = files[f].file_hash
                                THEN "true" ELSE "false",
                      !.len = Len(audit)]
  /\ UNCHANGED <<files, dc, premis, versions, audit, disk, cv, rd, calls>>
  /\ Rest

\* VerifyFile comparing the content with the digest of the PREMIS record, which
\* createVersion does not replace
VerifyFileAgainstPremis(f) ==
  /\ ret' = [NoRet EXCEPT !.op = "verifyFile", !.id = f, !.len = Len(audit),
               !.val = IF f \in DOMAIN files /\ f \in DOMAIN premis
                          /\ disk[files[f].file_path] = premis[f].message_digest
                         THEN "true" ELSE "false"]
  /\ UNCHANGED <<files, dc, premis, versions, audit, disk, cv, rd, calls>>
  /\ Rest

\* VerifyFile letting the failure of fs.stat or of the read reject the call
VerifyFileRaising(f) ==
  /\ ret' = [NoRet EXCEPT !.op = "verifyFile", !.id = f, !.len = Len(audit),
               !.val = IF f \notin DOMAIN files THEN "false"
                       ELSE IF disk[files[f].file_path] \in {Missing, Unreadable}
                         THEN "throws"
                       ELSE IF disk[files[f].file_path] = files[f].file_hash
                         THEN "true" ELSE "false"]
  /\ UNCHANGED <<files, dc, premis, versions, audit, disk, cv, rd, calls>>
  /\ Rest

\* verifyFile (part_011 13-52) on the rows it reads and writes; num is the number
\* of rows the call added to audit_log and len the length of audit_log when it
\* returned
VerifyFileBody(f) ==
  IF f \notin DOMAIN files
    THEN /\ ret' = [NoRet EXCEPT !.op = "verifyFile", !.id = f, !.val = "false",
                                 !.err = "File not found", !.len = Len(audit)]
         /\ UNCHANGED audit
    ELSE LET stored == files[f].file_hash
             current == disk[files[f].file_path]
             r == [NoRet EXCEPT !.op = "verifyFile", !.id = f, !.stored = stored,
                                !.current = current]
         IN IF current = Missing
              THEN /\ ret' = [r EXCEPT !.val = "false", !.len = Len(audit),
                                       !.err = "File does not exist on disk"]
                   /\ UNCHANGED audit
              ELSE IF current = Unreadable
                THEN /\ ret' = [r EXCEPT !.val = "false", !.len = Len(audit),
                                         !.err = "read_error"]
                     /\ UNCHANGED audit
              ELSE IF current = stored
                THEN /\ ret' = [r EXCEPT !.val = "true", !.len = Len(audit)]
                     /\ UNCHANGED audit
                ELSE /\ AuditRoom(1)
                     /\ audit' = Append(audit, AuditRow("logAction", "VALIDATE", f, now,
                                                        FixityError(stored, current)))
                     /\ ret' = [r EXCEPT !.val = "false", !.num = 1,
                                         !.len = Len(audit) + 1]

\* a single verifyFile call
VerifyFile(f) ==
  /\ VerifyFileBody(f)
  /\ UNCHANGED <<files, dc, premis, versions, disk, cv, rd, calls>>
  /\ Rest

\* the status getFixityReport derives from the VALIDATE rows it selected, newest
\* first (part_011 140-151); no code writes details.severity, so row.details is
\* never 'critical'
ReportStatus(rows) ==
  LET severity(row) == "undefined"
      isValid(row) == ~(severity(row) = "critical")
  IN IF rows = <<>> THEN "unknown"
     ELSE IF isValid(rows[1]) = FALSE THEN "invalid" ELSE "valid"

\* getFixityReport (part_011 105-164): the second query selects the column details,
\* which audit_log does not have, so the query fails and the call rethrows
GetFixityReport(f) ==
  /\ ret' = [NoRet EXCEPT !.op = "getFixityReport", !.id = f, !.len = Len(audit),
               !.val = IF f \notin DOMAIN files THEN "unknown"
                       ELSE IF ~({"created_at", "details"} \subseteq AuditLogColumns)
                         THEN "throws"
                       ELSE ReportStatus(SelectSeq(audit,
                              LAMBDA e : e.resource_id = f /\ e.action = "VALIDATE"))]
  /\ UNCHANGED <<files, dc, premis, versions, audit, disk, cv, rd, calls>>
  /\ Rest

\* the content at a path is replaced or removed outside the application
Tamper(path, h) ==
  /\ h # disk[path]
  /\ disk' = [disk EXCEPT ![path] = h]
  /\ UNCHANGED <<files, dc, premis, versions, audit, cv, rd, calls, ret>>
  /\ Rest

\* ------------------------------------------------------------ HashService
\* verifyFileIntegrity(filePath, expectedHash) (hash.ts 38-46) over
\* calculateFileHashFromPath (hash.ts 18-33), whose promise rejects when the read
\* stream reports an error; current is the digest computed, or "io_error"
VerifyFileIntegrity(path, expectedHash) ==
  /\ LET rejected == disk[path] \in {Missing, Unreadable}
         R == [NoRet EXCEPT !.op = "verifyFileIntegrity", !.id = path,
                            !.stored = expectedHash]
     IN ret' = IF rejected
                 THEN [R EXCEPT !.current = "io_error", !.val = "false"]
                 ELSE [R EXCEPT !.current = disk[path],
                                !.val = IF disk[path] = expectedHash THEN "true"
                                                                     ELSE "false"]
  /\ UNCHANGED <<files, dc, premis, versions, audit, disk, cv, rd, calls>>
  /\ Rest

\* ------------------------------------------- FileService.createVersion
\* a createVersion call ends: ROLLBACK (or COMMIT) and the value or error it returns
CvReturn(t, v, n) ==
  /\ cv' = [cv EXCEPT ![t] = IdleCv]
  /\ ret' = [NoRet EXCEPT !.op = "createVersion", !.id = cv[t].fileId, !.val = v, !.num = n]

\* BEGIN and the SELECT of current_version and file_hash (files.ts 83-96)
CvBegin(t, f, path, hash) ==
  /\ cv[t].pc = "idle"
  /\ AuditRoom(2)
  /\ IF f \notin DOMAIN files
       THEN /\ ret' = [NoRet EXCEPT !.op = "createVersion", !.id = f, !.val = "not_found"]
            /\ UNCHANGED cv
       ELSE /\ files[f].current_version < MaxVersion
            /\ f \in DOMAIN premis => Len(premis[f].events) < MaxEvents
            /\ cv' = [cv EXCEPT ![t] = [pc |-> "cv_insert", fileId |-> f, newPath |-> path,
                                        newHash |-> hash,
                                        previousVersion |-> files[f].current_version,
                                        previousHash |-> files[f].file_hash,
                                        started |-> now, events |-> <<>>]]
            /\ UNCHANGED ret
  /\ UNCHANGED <<files, dc, premis, versions, audit, disk, rd, calls>>
  /\ Rest

\* CvInsertVersion with no UNIQUE (file_id, version_number) on file_versions
CvInsertVersionNoUnique(t) ==
  /\ cv[t].pc = "cv_insert"
  /\ IF disk[cv[t].newPath] = Missing
       THEN CvReturn(t, "stat_error", 0) /\ UNCHANGED calls
       ELSE /\ cv' = [cv EXCEPT ![t].pc = "cv_update"]
            /\ UNCHANGED <<ret, calls>>
  /\ UNCHANGED <<files, dc, premis, versions, audit, disk, rd>>
  /\ Rest

\* fs.stat and the INSERT INTO file_versions (files.ts 98-121); UNIQUE (file_id,
\* version_number) makes the INSERT wait for an open transaction that has inserted
\* the same key, and fail if the key is committed
CvInsertVersion(t) ==
  /\ cv[t].pc = "cv_insert"
  /\ LET f == cv[t].fileId
         n == cv[t].previousVersion + 1
     IN /\ ~\E u \in VProcs \ {t} : /\ HasPendingVersion(u)
                                    /\ cv[u].fileId = f
                                    /\ cv[u].previousVersion + 1 = n
        /\ IF disk[cv[t].newPath] = Missing
             THEN CvReturn(t, "stat_error", 0) /\ UNCHANGED calls
           ELSE IF \E v \in versions : v.file_id = f /\ v.version_number = n
             THEN /\ CvReturn(t, "version_conflict", 0)
                  /\ calls' = [calls EXCEPT ![f].conflict = @ + 1]
           ELSE /\ cv' = [cv EXCEPT ![t].pc = "cv_update"]
                /\ UNCHANGED <<ret, calls>>
  /\ UNCHANGED <<files, dc, premis, versions, audit, disk, rd>>
  /\ Rest

\* the UPDATE files (files.ts 124-133): waits for the row lock and for an open
\* transaction writing the same file_hash; files.file_hash is UNIQUE
CvUpdateFile(t) ==
  /\ cv[t].pc = "cv_update"
  /\ ~RowLocked(cv[t].fileId)
  /\ ~HashPending(cv[t].newHash)
  /\ IF HashTaken(cv[t].newHash, cv[t].fileId)
       THEN CvReturn(t, "duplicate_hash", 0)
       ELSE /\ cv' = [cv EXCEPT ![t].pc = "cv_premis_read"]
            /\ UNCHANGED ret
  /\ UNCHANGED <<files, dc, premis, versions, audit, disk, rd, calls>>
  /\ Rest

\* recordPremisEvent, the SELECT through db.query (metadata.ts 191-200)
CvPremisRead(t) ==
  /\ cv[t].pc = "cv_premis_read"
  /\ IF cv[t].fileId \notin DOMAIN premis
       THEN CvReturn(t, "premis_not_found", 0)
       ELSE /\ cv' = [cv EXCEPT ![t].pc = "cv_premis_write",
                                ![t].events = premis[cv[t].fileId].events]
            /\ UNCHANGED ret
  /\ UNCHANGED <<files, dc, premis, versions, audit, disk, rd, calls>>
  /\ Rest

\* recordPremisEvent, the UPDATE of premis_json through db.query (metadata.ts
\* 202-219): it commits by itself, outside the transaction of createVersion
CvPremisWrite(t) ==
  /\ cv[t].pc = "cv_premis_write"
  /\ premis' = [premis EXCEPT ![cv[t].fileId].events = Append(cv[t].events,
                                       PremisEvent("modification", "none", "none", "none"))]
  /\ cv' = [cv EXCEPT ![t].pc = "cv_audit"]
  /\ UNCHANGED <<files, dc, versions, audit, disk, rd, calls, ret>>
  /\ Rest

\* logAction through db.query (files.ts 144-148, part_010 23-42): it commits by
\* itself; ok = FALSE is the INSERT failing, which rolls the transaction back
CvAudit(t, ok) ==
  /\ cv[t].pc = "cv_audit"
  /\ IF ok
       THEN /\ audit' = Append(audit, AuditRow("logAction", "UPDATE", cv[t].fileId, now, NoErr))
            /\ cv' = [cv EXCEPT ![t].pc = "cv_commit"]
            /\ UNCHANGED ret
       ELSE /\ CvReturn(t, "db_error", 0)
            /\ UNCHANGED audit
  /\ UNCHANGED <<files, dc, premis, versions, disk, rd, calls>>
  /\ Rest

\* CvCommit with a version row that keeps the new digest in place of the one
\* replaced
CvCommitNoPrevious(t) ==
  /\ cv[t].pc = "cv_commit"
  /\ LET f == cv[t].fileId
         n == cv[t].previousVersion + 1
     IN /\ versions' = versions \cup {[file_id |-> f, version_number |-> n,
                                       file_hash |-> cv[t].newHash,
                                       previousHash |-> cv[t].newHash]}
        /\ files' = [files EXCEPT ![f].file_path = cv[t].newPath,
                                  ![f].file_hash = cv[t].newHash,
                                  ![f].current_version = n]
        /\ audit' = Append(audit, AuditRow("trigger", "UPDATE", f, cv[t].started, NoErr))
        /\ calls' = [calls EXCEPT ![f].numbered = @ + 1]
        /\ CvReturn(t, "ok", n)
  /\ UNCHANGED <<dc, premis, disk, rd>>
  /\ Rest

\* COMMIT (db.ts 98): the version row, the files row and the row trigger
\* log_files_change wrote for the UPDATE become visible
CvCommit(t) ==
  /\ cv[t].pc = "cv_commit"
  /\ LET f == cv[t].fileId
         n == cv[t].previousVersion + 1
     IN /\ versions' = versions \cup {[file_id |-> f, version_number |-> n,
                                       file_hash |-> cv[t].newHash,
                                       previousHash |-> cv[t].previousHash]}
        /\ files' = [files EXCEPT ![f].file_path = cv[t].newPath,
                                  ![f].file_hash = cv[t].newHash,
                                  ![f].current_version = n]
        /\ audit' = Append(audit, AuditRow("trigger", "UPDATE", f, cv[t].started, NoErr))
        /\ calls' = [calls EXCEPT ![f].numbered = @ + 1]
        /\ CvReturn(t, "ok", n)
  /\ UNCHANGED <<dc, premis, disk, rd>>
  /\ Rest

\* ------------------------------------------------------------ AuditService
\* the rows numbered M that no row of M is older than
Oldest(M) == {x \in M : \A y \in M : audit[x].created_at <= audit[y].created_at}

\* the rows numbered M that no row of M is newer than
Newest(M) == {x \in M : \A y \in M : audit[x].created_at >= audit[y].created_at}

\* ORDER BY created_at ASC, the first n rows
RECURSIVE OldestFirst(_, _)
OldestFirst(M, n) ==
  IF M = {} \/ n = 0 THEN {<<>>}
  ELSE UNION {{<<x>> \o s : s \in OldestFirst(M \ {x}, n - 1)} : x \in Oldest(M)}

\* ORDER BY created_at DESC over the rows numbered M, the first n rows: every order
\* the store may return them in (rows of equal created_at come in any order)
RECURSIVE NewestFirst(_, _)
NewestFirst(M, n) ==
  IF M = {} \/ n = 0 THEN {<<>>}
  ELSE UNION {{<<x>> \o s : s \in NewestFirst(M \ {x}, n - 1)} : x \in Newest(M)}

Matching(id, n) == {i \in 1..n : audit[i].resource_id = id}

\* LIMIT limit OFFSET offset
Page(s, limit, offset) ==
  SubSeq(s, offset + 1, IF offset + limit < Len(s) THEN offset + limit ELSE Len(s))

\* getResourceAuditLog, the COUNT(*) query (part_010 55-58)
AuditCount(id, limit, offset) ==
  /\ rd.pc = "idle"
  /\ rd' = [pc |-> "counted", id |-> id, limit |-> limit, offset |-> offset,
            total |-> Cardinality(Matching(id, Len(audit))), len |-> Len(audit)]
  /\ ret' = NoRet
  /\ UNCHANGED <<files, dc, premis, versions, audit, disk, cv, calls>>
  /\ Rest

\* getResourceAuditLog, the SELECT (part_010 60-69); entries holds the numbers of
\* the rows returned, len0 and len the length of audit_log at the two queries
AuditSelect ==
  /\ rd.pc = "counted"
  /\ \E s \in NewestFirst(Matching(rd.id, Len(audit)), rd.offset + rd.limit) :
       ret' = [NoRet EXCEPT !.op = "getResourceAuditLog", !.id = rd.id,
                            !.entries = Page(s, rd.limit, rd.offset),
                            !.num = rd.total, !.len0 = rd.len, !.len = Len(audit),
                            !.limit = rd.limit, !.offset = rd.offset]
  /\ rd' = IdleRd
  /\ UNCHANGED <<files, dc, premis, versions, audit, disk, cv, calls>>
  /\ Rest

\* <<limit, offset>> as callers pass them
Queries == {<<2, 0>>, <<1, 1>>}

\* ------------------------------------- MetadataService.recordPremisEvent
MaxRecorded == 2       \* recordPremisEvent calls started per file

EProcs == {"e1", "e2"}
EventTypes == {"validation", "access"}

IdleRe == [pc |-> "idle", fileId |-> "f1", eventType |-> "validation", events |-> <<>>,
           caller |-> "none", isValid |-> FALSE, storedHash |-> "none",
           currentHash |-> "none"]

InitEvents ==
  /\ re = [p \in EProcs |-> IdleRe]
  /\ recorded = [f \in FileIds |-> [started |-> 0, done |-> 0]]

IdleVa == [pc |-> "idle", rows |-> <<>>, i |-> 1, total |-> 0, verified |-> 0,
           failed |-> 0, errors |-> <<>>, outcomes |-> <<>>]

InitBatch == va = IdleVa

\* what the calls on PREMIS events leave alone
EventFrame ==
  /\ UNCHANGED <<files, dc, versions, audit, disk, cv, rd, calls>>
  /\ UNCHANGED <<now, lockoutVars, enc, sched, va, dcm, http>>

\* recordPremisEvent(fileId, eventType, ..) is called (metadata.ts 185-190)
RecordPremisEvent(p, f, type) ==
  /\ re[p].pc = "idle"
  /\ recorded[f].started < MaxRecorded
  /\ re' = [re EXCEPT ![p] = [IdleRe EXCEPT !.pc = "re_select", !.fileId = f,
                                            !.eventType = type,
                                            !.caller = "recordPremisEvent"]]
  /\ recorded' = [recorded EXCEPT ![f].started = @ + 1]
  /\ UNCHANGED <<premis, ret>>
  /\ EventFrame

\* validateFixity(fileId, currentHash) up to its call of recordPremisEvent
\* (metadata.ts 225-244)
ValidateFixity(p, f, currentHash) ==
  /\ re[p].pc = "idle"
  /\ recorded[f].started < MaxRecorded
  /\ IF f \notin DOMAIN premis
       THEN /\ ret' = [NoRet EXCEPT !.op = "validateFixity", !.id = f, !.val = "throws",
                                    !.err = "PREMIS metadata not found"]
            /\ UNCHANGED <<re, recorded>>
       ELSE /\ re' = [re EXCEPT ![p] =
                        [IdleRe EXCEPT !.pc = "re_select", !.fileId = f,
                           !.eventType = "validation", !.caller = "validateFixity",
                           !.isValid = (premis[f].message_digest = currentHash),
                           !.storedHash = premis[f].message_digest,
                           !.currentHash = currentHash]]
            /\ recorded' = [recorded EXCEPT ![f].started = @ + 1]
            /\ UNCHANGED ret
  /\ UNCHANGED premis
  /\ EventFrame

\* recordPremisEvent, the SELECT of premis_json (metadata.ts 191-200)
ReSelect(p) ==
  /\ re[p].pc = "re_select"
  /\ IF re[p].fileId \notin DOMAIN premis
       THEN /\ re' = [re EXCEPT ![p] = IdleRe]
            /\ ret' = [NoRet EXCEPT !.op = re[p].caller, !.id = re[p].fileId,
                                    !.val = "throws", !.err = "PREMIS metadata not found"]
       ELSE /\ re' = [re EXCEPT ![p].pc = "re_update",
                                ![p].events = premis[re[p].fileId].events]
            /\ UNCHANGED ret
  /\ UNCHANGED <<premis, recorded>>
  /\ EventFrame

\* ReUpdate recording the event of validateFixity only when the check fails
ReUpdateOnFailure(p) ==
  /\ re[p].pc = "re_update"
  /\ premis' = [premis EXCEPT ![re[p].fileId].events =
                  IF re[p].caller = "validateFixity" /\ re[p].isValid
                    THEN re[p].events
                    ELSE Append(re[p].events,
                                PremisEvent(re[p].eventType,
                                            IF re[p].caller = "validateFixity"
                                              THEN "FAILED" ELSE "none",
                                            re[p].storedHash, re[p].currentHash))]
  /\ recorded' = [recorded EXCEPT ![re[p].fileId].done = @ + 1]
  /\ re' = [re EXCEPT ![p] = IdleRe]
  /\ ret' = [NoRet EXCEPT !.op = re[p].caller, !.id = re[p].fileId,
               !.val = IF re[p].caller = "validateFixity"
                         THEN (IF re[p].isValid THEN "true" ELSE "false") ELSE "ok"]
  /\ EventFrame

\* recordPremisEvent, the push on the list read and the UPDATE of premis_json
\* (metadata.ts 202-219); the caller then returns
ReUpdate(p) ==
  /\ re[p].pc = "re_update"
  /\ premis' = [premis EXCEPT ![re[p].fileId].events =
                  Append(re[p].events,
                         IF re[p].caller = "validateFixity"
                           THEN PremisEvent("validation",
                                            IF re[p].isValid THEN "passed" ELSE "FAILED",
                                            re[p].storedHash, re[p].currentHash)
                           ELSE PremisEvent(re[p].eventType, "none", "none", "none"))]
  /\ recorded' = [recorded EXCEPT ![re[p].fileId].done = @ + 1]
  /\ re' = [re EXCEPT ![p] = IdleRe]
  /\ ret' = [NoRet EXCEPT !.op = re[p].caller, !.id = re[p].fileId,
               !.val = IF re[p].caller = "validateFixity"
                         THEN (IF re[p].isValid THEN "true" ELSE "false") ELSE "ok"]
  /\ EventFrame

EventsNext ==
  \/ \E p \in EProcs, f \in {"f1", "f3"}, type \in EventTypes : RecordPremisEvent(p, f, type)
  \/ \E p \in EProcs, f \in {"f1", "f3"}, h \in {"h1", "h2"} : ValidateFixity(p, f, h)
  \/ \E p \in EProcs : ReSelect(p)
  \/ \E p \in EProcs : ReUpdate(p)

\* ------------------------------------------ FixityService.verifyAllFiles
DEFAULT_LIMIT == 100   \* part_011 70: limit || 100

\* the sequences that list every element of the set S once
RECURSIVE Orders(_)
Orders(S) ==
  IF S = {} THEN {<<>>}
  ELSE UNION {{<<x>> \o o : o \in Orders(S \ {x})} : x \in S}

FirstRows(s, n) == SubSeq(s, 1, IF Len(s) < n THEN Len(s) ELSE n)

\* the optional filters of searchFiles in the order the code tests them
\* (files.ts 196-228)
SearchFilters == <<"accessLevel", "category", "creator", "dateFrom", "dateTo">>

\* params after the filters given are pushed: q, then one value per filter
SearchParams(given) ==
  <<"q">> \o SelectSeq(SearchFilters, LAMBDA name : name \in given)

\* searchFiles (files.ts 170-290), the result query. paramIndex is the number of
\* the next free placeholder; the text holds $1..$(paramIndex - 1), LIMIT
\* $(paramIndex + 1) and OFFSET $(paramIndex + 2), and the values bound are params,
\* limit, offset. The store runs a statement only if its placeholders are exactly
\* those that have a value. pre tells the values bound, len0 and len the numbers of
\* the LIMIT and OFFSET placeholders
SearchFiles(given, limit, offset) ==
  /\ LET params == SearchParams(given)
         paramIndex == Len(params) + 1
         bound == params \o <<"limit", "offset">>
         placeholders == (1..Len(params)) \cup {paramIndex + 1, paramIndex + 2}
         R == [NoRet EXCEPT !.op = "searchFiles", !.pre = bound, !.limit = limit,
                            !.offset = offset, !.len0 = paramIndex + 1,
                            !.len = paramIndex + 2]
     IN IF placeholders = 1..Len(bound)
          THEN \E o \in Orders({f \in DOMAIN files : ~files[f].is_deleted}) :
                 ret' = [R EXCEPT !.val = "ok", !.entries = Page(o, limit, offset)]
          ELSE ret' = [R EXCEPT !.val = "throws", !.err = "db_error"]
  /\ UNCHANGED <<files, dc, premis, versions, audit, disk, cv, rd, calls>>
  /\ Rest

\* what a step of verifyAllFiles leaves alone
BatchFrame ==
  /\ UNCHANGED <<files, dc, premis, versions, disk, cv, rd, calls>>
  /\ UNCHANGED <<now, lockoutVars, enc, sched, re, recorded, dcm, http>>

\* verifyAllFiles(limit), the SELECT of the accessible files (part_011 63-76);
\* updated_at is not kept here, so the rows come in any order. selectOk = FALSE is
\* the SELECT failing, which the call rethrows
VaBegin(limit, selectOk) ==
  /\ va.pc # "loop"
  /\ IF ~selectOk
       THEN /\ va' = IdleVa
            /\ ret' = [NoRet EXCEPT !.op = "verifyAllFiles", !.val = "throws",
                                    !.err = "db_error"]
       ELSE /\ \E o \in Orders({f \in DOMAIN files : files[f].is_accessible}) :
                 va' = [IdleVa EXCEPT !.pc = "loop",
                          !.rows = FirstRows(o, IF limit = 0 THEN DEFAULT_LIMIT ELSE limit)]
            /\ ret' = NoRet
  /\ UNCHANGED audit
  /\ BatchFrame

\* VaStep that lets the failure of a file end the batch
VaStepAborting(fault) ==
  /\ va.pc = "loop" /\ va.i <= Len(va.rows)
  /\ IF fault
       THEN /\ ret' = [NoRet EXCEPT !.op = "verifyFile", !.id = va.rows[va.i],
                                    !.val = "false", !.err = "db_error", !.len = Len(audit)]
            /\ UNCHANGED audit
       ELSE VerifyFileBody(va.rows[va.i])
  /\ va' = IF ret'.val = "true"
             THEN [va EXCEPT !.i = @ + 1, !.verified = @ + 1,
                             !.outcomes = Append(@, "true")]
             ELSE [va EXCEPT !.pc = "done", !.total = Len(va.rows), !.failed = @ + 1,
                             !.outcomes = Append(@, "false"),
                             !.errors = Append(@, [fileId |-> va.rows[va.i],
                                                   error |-> ret'.err])]
  /\ BatchFrame

\* one turn of the loop (part_011 79-87): verifyFile on the next row; fault is the
\* store failing inside verifyFile, which verifyFile catches and reports
VaStep(fault) ==
  /\ va.pc = "loop" /\ va.i <= Len(va.rows)
  /\ IF fault
       THEN /\ ret' = [NoRet EXCEPT !.op = "verifyFile", !.id = va.rows[va.i],
                                    !.val = "false", !.err = "db_error", !.len = Len(audit)]
            /\ UNCHANGED audit
       ELSE VerifyFileBody(va.rows[va.i])
  /\ va' = IF ret'.val = "true"
             THEN [va EXCEPT !.i = @ + 1, !.verified = @ + 1,
                             !.outcomes = Append(@, "true")]
             ELSE [va EXCEPT !.i = @ + 1, !.failed = @ + 1,
                             !.outcomes = Append(@, "false"),
                             !.errors = Append(@, [fileId |-> va.rows[va.i],
                                                   error |-> ret'.err])]
  /\ BatchFrame

\* the report (part_011 89-94)
VaEnd ==
  /\ va.pc = "loop" /\ va.i > Len(va.rows)
  /\ va' = [va EXCEPT !.pc = "done", !.total = Len(va.rows)]
  /\ ret' = [NoRet EXCEPT !.op = "verifyAllFiles", !.val = "report",
                          !.num = Len(va.rows)]
  /\ UNCHANGED audit
  /\ BatchFrame

\* updateFileMetadata (files.ts 332-359): the UPDATE of description,
\* a11y_description, access_level and updated_at on the transaction's client,
\* updateDublinCoreMetadata when Dublin Core fields are passed, then logAction;
\* logOk = FALSE is logAction failing, which rolls the UPDATE back
UpdateFileMetadata(f, withDc, logOk) ==
  /\ ~RowLocked(f)
  /\ AuditRoom(2)
  /\ IF withDc /\ f \notin dc
       THEN /\ ret' = [NoRet EXCEPT !.op = "updateFileMetadata", !.id = f,
                                    !.val = "throws", !.err = "Metadata not found"]
            /\ UNCHANGED audit
     ELSE IF ~logOk
       THEN /\ ret' = [NoRet EXCEPT !.op = "updateFileMetadata", !.id = f,
                                    !.val = "db_error"]
            /\ UNCHANGED audit
     ELSE /\ audit' = IF f \in DOMAIN files
                        THEN Append2(audit, AuditRow("logAction", "UPDATE", f, now, NoErr),
                                            AuditRow("trigger", "UPDATE", f, now, NoErr))
                        ELSE Append(audit, AuditRow("logAction", "UPDATE", f, now, NoErr))
          /\ ret' = [NoRet EXCEPT !.op = "updateFileMetadata", !.id = f, !.val = "ok"]
  /\ UNCHANGED <<files, dc, premis, versions, disk, cv, rd, calls>>
  /\ Rest

\* -------------------------------------------------------- EncryptionService
KEY_BYTES == 32        \* fileStorage.ts 132
IV_HEX == 32           \* fileStorage.ts 188: the payload's characters 1..32
TAG_HEX == 32          \* fileStorage.ts 189: the payload's characters 33..64
GcmTagBytes == {4, 8, 12, 13, 14, 15, 16}   \* tag lengths setAuthTag accepts for GCM

\* a value of process.env.ENCRYPTION_KEY: unset, the placeholder of .env.example, or
\* a string of `digits` hexadecimal digits followed, if tail, by a character that is
\* no hexadecimal digit; id tells the digits of one key from those of another
Unset == [kind |-> "unset", id |-> "k1", digits |-> 0, tail |-> FALSE]
Placeholder == [kind |-> "placeholder", id |-> "k1", digits |-> 0, tail |-> FALSE]
HexKey(id, digits, tail) == [kind |-> "hex", id |-> id, digits |-> digits, tail |-> tail]

KeyConfigs ==
  {Unset, Placeholder, HexKey("k2", 2 * KEY_BYTES, FALSE)}
    \cup {HexKey("k1", n, FALSE) : n \in {0, KEY_BYTES, 2 * KEY_BYTES - 1, 2 * KEY_BYTES,
                                          2 * KEY_BYTES + 1, 2 * KEY_BYTES + 2}}
    \cup {HexKey("k1", n, TRUE) : n \in {2 * KEY_BYTES - 1, 2 * KEY_BYTES}}

GoodKeys == {HexKey("k1", 2 * KEY_BYTES, FALSE), HexKey("k2", 2 * KEY_BYTES, FALSE)}

\* Buffer.from(keyHex, 'hex'): the bytes of the leading pairs of hexadecimal digits
HexBuffer(k) == [id |-> k.id, bytes |-> k.digits \div 2]

NoKey == [id |-> "none", bytes |-> 0]

\* code units of a plaintext: an ASCII letter, a high and a low surrogate
CodeUnits == {"a", "H", "L"}
MaxText == 2
Plaintexts == UNION {[1..n -> CodeUnits] : n \in 0..MaxText}

\* string to UTF-8: an unpaired surrogate is written as U+FFFD (EF BF BD)
RECURSIVE Utf8(_)
Utf8(p) ==
  IF p = <<>> THEN <<>>
  ELSE IF p[1] = "a" THEN <<"61">> \o Utf8(Tail(p))
  ELSE IF p[1] = "1" THEN <<"31">> \o Utf8(Tail(p))
  ELSE IF p[1] = "H" /\ Len(p) >= 2 /\ p[2] = "L"
    THEN <<"F0", "9F", "98", "80">> \o Utf8(Tail(Tail(p)))
  ELSE <<"EF", "BF", "BD">> \o Utf8(Tail(p))

\* UTF-8 (as Utf8 writes it) to string; "R" is U+FFFD
RECURSIVE Utf8Decode(_)
Utf8Decode(b) ==
  IF b = <<>> THEN <<>>
  ELSE IF b[1] = "61" THEN <<"a">> \o Utf8Decode(Tail(b))
  ELSE IF b[1] = "31" THEN <<"1">> \o Utf8Decode(Tail(b))
  ELSE IF b[1] = "F0" THEN <<"H", "L">> \o Utf8Decode(SubSeq(b, 5, Len(b)))
  ELSE <<"R">> \o Utf8Decode(SubSeq(b, 4, Len(b)))

NoMark == [pos |-> 0, kind |-> "none"]
NoPayload == [kid |-> "none", plain |-> <<>>, body |-> <<>>, mark |-> NoMark]
NoEret == [op |-> "none", val |-> "none", env |-> Unset, text |-> <<>>, kid |-> "none"]

\* a value of an object's field: the field is absent, null, a number, a string, or
\* the string encrypt returned under key kid for the bytes in text
Value(type, text) == [type |-> type, cipher |-> FALSE, kid |-> "none", text |-> text]
Absent == Value("absent", <<>>)
Null == Value("null", <<>>)
Digits == {<<"1">>}
FieldTexts == {<<>>, <<"a">>, <<"1">>, <<"a", "1">>}
FieldValues ==
  {Absent, Null} \cup {Value("number", t) : t \in Digits}
                 \cup {Value("string", t) : t \in FieldTexts}
FieldNames == {"name", "size"}
Objects == [FieldNames -> FieldValues]
NoObject == [f \in FieldNames |-> Absent]
NoOret == [op |-> "none", val |-> "none", input |-> NoObject, fields |-> {},
           stored |-> NoObject, kid |-> "none", dfields |-> {}, dkid |-> "none",
           output |-> NoObject]

InitEnc ==
  enc = [env |-> Unset, key |-> NoKey, payload |-> NoPayload, eret |-> NoEret,
         oret |-> NoOret]

EncFrame ==
  UNCHANGED <<now, lockoutVars, archiveVars, sched, re, recorded, va, dcm, http>>

\* the payload's length in characters: nonce, tag and two per byte of the body
PayloadLen(pl) == IV_HEX + TAG_HEX + 2 * Len(pl.body)

\* character i of the payload: as encrypt wrote it ("ok"), another hexadecimal digit
\* ("hex") or a character that is no hexadecimal digit ("bad")
CharAt(pl, i) == IF pl.mark.pos = i THEN pl.mark.kind ELSE "ok"

\* Buffer.from(s, 'hex') of the characters from..to: decoding stops at the first pair
\* that holds a character that is no hexadecimal digit; same tells whether the bytes
\* decoded are the bytes encrypt wrote there
HexField(pl, from, to) ==
  LET bad == {i \in from..to : CharAt(pl, i) = "bad"}
      stop == IF bad = {} THEN to + 1 ELSE CHOOSE i \in bad : \A j \in bad : i <= j
      n == (stop - from) \div 2
  IN [len |-> n,
      same |-> \A i \in from..(from + 2 * n - 1) : CharAt(pl, i) = "ok"]

\* the process is started with ENCRYPTION_KEY = k
Configure(k) ==
  /\ k # enc.env
  /\ enc' = [enc EXCEPT !.env = k, !.key = NoKey, !.eret = NoEret]
  /\ EncFrame

\* initialize() without the check of the Buffer's length
InitializeKeyAnyLength(env, key) ==
  IF env.kind # "hex" \/ (env.digits = 0 /\ ~env.tail)
    THEN [key |-> key, val |-> "throws"]
    ELSE [key |-> HexBuffer(env), val |-> "ok"]

\* what initialize() (fileStorage.ts 116-146) leaves in encryptionKey and whether it
\* throws: the Buffer is assigned before its length is checked
InitializeKey(env, key) ==
  IF env.kind # "hex" \/ (env.digits = 0 /\ ~env.tail)
    THEN [key |-> key, val |-> "throws"]
    ELSE [key |-> HexBuffer(env),
          val |-> IF HexBuffer(env).bytes # KEY_BYTES THEN "throws" ELSE "ok"]

\* EncryptionService.initialize()
Initialize ==
  /\ enc' = [enc EXCEPT !.key = InitializeKey(enc.env, enc.key).key,
                        !.eret = [NoEret EXCEPT !.op = "initialize", !.env = enc.env,
                                    !.val = InitializeKey(enc.env, enc.key).val]]
  /\ EncFrame

\* getKey() (fileStorage.ts 151-156): initialize() when no key is held
GetKey == IF enc.key = NoKey THEN InitializeKey(enc.env, enc.key)
          ELSE [key |-> enc.key, val |-> "ok"]

\* encrypt(plaintext) (fileStorage.ts 162-177); createCipheriv throws for a key that
\* is not 32 bytes long
Encrypt(p) ==
  /\ LET k == GetKey
     IN IF k.val = "throws" \/ k.key.bytes # KEY_BYTES
          THEN enc' = [enc EXCEPT !.key = k.key,
                         !.eret = [NoEret EXCEPT !.op = "encrypt", !.val = "throws",
                                                 !.env = enc.env]]
          ELSE enc' = [enc EXCEPT !.key = k.key,
                         !.payload = [kid |-> k.key.id, plain |-> p, body |-> Utf8(p),
                                      mark |-> NoMark],
                         !.eret = [NoEret EXCEPT !.op = "encrypt", !.val = "ok",
                                                 !.env = enc.env, !.kid = k.key.id]]
  /\ EncFrame

\* one character of the stored payload is replaced
Corrupt(pos, kind) ==
  /\ enc.payload # NoPayload /\ enc.payload.mark = NoMark
  /\ pos \in 1..PayloadLen(enc.payload)
  /\ enc' = [enc EXCEPT !.payload.mark = [pos |-> pos, kind |-> kind], !.eret = NoEret]
  /\ EncFrame

\* decrypt(ciphertext) (fileStorage.ts 182-203) of the stored payload. AES-256-GCM
\* accepts the payload when key, nonce and body are those of encrypt and the tag
\* given is the tag of encrypt or a prefix of it of a length setAuthTag accepts
Decrypt ==
  /\ enc.payload # NoPayload
  /\ LET pl == enc.payload
         k == GetKey
         iv == HexField(pl, 1, IV_HEX)
         authTag == HexField(pl, IV_HEX + 1, IV_HEX + TAG_HEX)
         encrypted == HexField(pl, IV_HEX + TAG_HEX + 1, PayloadLen(pl))
         thrown == [NoEret EXCEPT !.op = "decrypt", !.val = "throws", !.env = enc.env,
                                  !.kid = k.key.id]
     IN IF k.val = "throws" \/ k.key.bytes # KEY_BYTES \/ iv.len = 0
          THEN enc' = [enc EXCEPT !.key = k.key, !.eret = thrown]
        ELSE IF authTag.len \notin GcmTagBytes
          THEN enc' = [enc EXCEPT !.key = k.key, !.eret = thrown]
        ELSE IF /\ k.key.id = pl.kid
                /\ 2 * iv.len = IV_HEX /\ iv.same
                /\ authTag.same
                /\ encrypted.len = Len(pl.body) /\ encrypted.same
          THEN enc' = [enc EXCEPT !.key = k.key,
                         !.eret = [NoEret EXCEPT !.op = "decrypt", !.val = "ok",
                                     !.env = enc.env, !.kid = k.key.id,
                                     !.text = Utf8Decode(pl.body)]]
        ELSE enc' = [enc EXCEPT !.key = k.key, !.eret = thrown]
  /\ EncFrame

\* JSON.parse of a string of the characters a and 1: a JSON text is here a run of
\* digits, which parses to a number; anything else throws
IsJson(t) == Len(t) > 0 /\ \A i \in 1..Len(t) : t[i] = "1"

\* the field after the loop body of encryptObject (fileStorage.ts 211-224) under key
\* k: JSON.stringify of a number is its digits
EncryptField(k, v) ==
  IF v.type \in {"absent", "null"} THEN v
  ELSE [type |-> "string", cipher |-> TRUE, kid |-> k.id, text |-> Utf8(v.text)]

\* the field after the loop body of decryptObject (fileStorage.ts 235-258), which
\* parses every decrypted text as JSON
DecryptField(k, v) ==
  IF v.type # "string" THEN v
  ELSE IF k.val = "throws" \/ k.key.bytes # KEY_BYTES \/ ~v.cipher \/ v.kid # k.key.id
    THEN v
  ELSE LET decryptedValue == Utf8Decode(v.text)
       IN IF IsJson(decryptedValue) THEN Value("number", decryptedValue)
          ELSE Value("string", decryptedValue)

\* encryptObject(obj, fieldsToEncrypt) (fileStorage.ts 208-227); encrypt throws
\* when no key of 32 bytes is held
EncryptObject(obj, fieldsToEncrypt) ==
  /\ LET k == GetKey
         used == {f \in fieldsToEncrypt : obj[f].type \notin {"absent", "null"}}
     IN IF used # {} /\ (k.val = "throws" \/ k.key.bytes # KEY_BYTES)
          THEN enc' = [enc EXCEPT !.key = k.key,
                         !.oret = [NoOret EXCEPT !.op = "encryptObject", !.val = "throws",
                                     !.input = obj, !.fields = fieldsToEncrypt]]
          ELSE enc' = [enc EXCEPT !.key = IF used = {} THEN enc.key ELSE k.key,
                         !.oret = [NoOret EXCEPT !.op = "encryptObject", !.val = "ok",
                                     !.input = obj, !.fields = fieldsToEncrypt,
                                     !.kid = IF used = {} THEN "none" ELSE k.key.id,
                                     !.stored = [f \in FieldNames |->
                                        IF f \in fieldsToEncrypt
                                          THEN EncryptField(k.key, obj[f]) ELSE obj[f]]]]
  /\ EncFrame

\* decryptObject(obj, fieldsToDecrypt) (fileStorage.ts 232-261) of the object that
\* encryptObject returned
DecryptObject(fieldsToDecrypt) ==
  /\ enc.oret.op = "encryptObject" /\ enc.oret.val = "ok"
  /\ LET k == GetKey
         obj == enc.oret.stored
         used == {f \in fieldsToDecrypt : obj[f].type = "string"}
     IN enc' = [enc EXCEPT !.key = IF used = {} THEN enc.key ELSE k.key,
                  !.oret = [enc.oret EXCEPT !.op = "decryptObject",
                              !.dfields = fieldsToDecrypt,
                              !.dkid = IF used = {} \/ k.val = "throws" THEN "none"
                                       ELSE k.key.id,
                              !.output = [f \in FieldNames |->
                                 IF f \in fieldsToDecrypt
                                   THEN DecryptField(k, obj[f]) ELSE obj[f]]]]
  /\ EncFrame

\* objects whose fields are encrypted and decrypted
ObjectsNext ==
  \/ \E k \in GoodKeys : Configure(k)
  \/ \E obj \in Objects, fieldsToEncrypt \in SUBSET FieldNames :
       EncryptObject(obj, fieldsToEncrypt)
  \/ \E fieldsToDecrypt \in SUBSET FieldNames : DecryptObject(fieldsToDecrypt)

\* configuration and start-up of the encryption key
KeyNext ==
  \/ \E k \in KeyConfigs : Configure(k)
  \/ Initialize
  \/ \E p \in Plaintexts : Encrypt(p)

\* payloads written, altered in storage and read back
CryptoNext ==
  \/ \E k \in GoodKeys : Configure(k)
  \/ \E p \in Plaintexts : Encrypt(p)
  \/ \E pos \in 1..(IV_HEX + TAG_HEX + 8 * MaxText), kind \in {"hex", "bad"} :
       Corrupt(pos, kind)
  \/ Decrypt

\* --------------------------------------------------------- SchedulerService
MaxStarts == 2         \* calls of startAllJobs in one behaviour

Jobs == {"fixity-check", "backup", "monitoring"}
TimerNames == {"fixity-check-initial", "fixity-check", "backup-initial", "backup",
               "monitoring"}
NoTimer == 0

\* timers: the timers armed in the event loop, each [id, job, kind]; intervals: the
\* static Map name -> timer; stopped: stopAllJobs was the scheduler's last call;
\* late: a timer has started a job callback while stopped
InitSched ==
  sched = [timers |-> {}, intervals |-> [n \in TimerNames |-> NoTimer], nextId |-> 1,
           starts |-> 0, stopped |-> FALSE, late |-> FALSE]

SchedFrame ==
  UNCHANGED <<now, lockoutVars, archiveVars, enc, re, recorded, va, dcm, http>>

Timer(id, job, kind) == [id |-> id, job |-> job, kind |-> kind]

\* startAllJobs() (fileStorage.ts 309-315): startFixityCheckJob and startBackupJobs
\* arm a timeout each and store it under '<job>-initial'; startMonitoringJob runs
\* the monitoring once itself, arms an interval and stores it under 'monitoring'.
\* Map.set replaces what the name held before
StartAllJobs ==
  /\ sched.starts < MaxStarts
  /\ LET n == sched.nextId
     IN sched' = [sched EXCEPT
          !.timers = @ \cup {Timer(n, "fixity-check", "timeout"),
                             Timer(n + 1, "backup", "timeout"),
                             Timer(n + 2, "monitoring", "interval")},
          !.intervals = [@ EXCEPT !["fixity-check-initial"] = n,
                                  !["backup-initial"] = n + 1,
                                  !["monitoring"] = n + 2],
          !.nextId = n + 3,
          !.starts = @ + 1,
          !.stopped = FALSE]
  /\ SchedFrame

\* the timers the Map holds
Held == {sched.intervals[n] : n \in TimerNames} \ {NoTimer}

\* stopAllJobs() (fileStorage.ts 320-327): clearInterval on every timer of the Map,
\* then the Map is emptied
StopAllJobs ==
  /\ sched.starts > 0
  /\ sched' = [sched EXCEPT
       !.timers = {t \in @ : t.id \notin Held},
       !.intervals = [n \in TimerNames |-> NoTimer],
       !.stopped = TRUE]
  /\ SchedFrame

\* an initial timeout fires (fileStorage.ts 341-346, 407-412): the job runs, a daily
\* interval is armed and stored under the job's name
FireTimeout(t) ==
  /\ t \in sched.timers /\ t.kind = "timeout"
  /\ sched' = [sched EXCEPT
       !.timers = (@ \ {t}) \cup {Timer(sched.nextId, t.job, "interval")},
       !.intervals = [@ EXCEPT ![t.job] = sched.nextId],
       !.nextId = @ + 1,
       !.late = @ \/ sched.stopped]
  /\ SchedFrame

\* an interval fires (fileStorage.ts 343, 409, 459): the job runs
FireInterval(t) ==
  /\ t \in sched.timers /\ t.kind = "interval"
  /\ sched' = [sched EXCEPT !.late = @ \/ sched.stopped]
  /\ sched' # sched
  /\ SchedFrame

AllTimers == {Timer(id, job, kind) : id \in 1..(5 * MaxStarts), job \in Jobs,
                                     kind \in {"timeout", "interval"}}

SchedulerNext ==
  \/ StartAllJobs
  \/ StopAllJobs
  \/ \E t \in AllTimers : FireTimeout(t)
  \/ \E t \in AllTimers : FireInterval(t)

\* RunFixityCheck whose promise rejects when the failure row cannot be written,
\* which ends the process and its timers
RunFixityCheckRejecting(t, selectOk, logOk, retryOk) ==
  /\ t \in sched.timers /\ t.job = "fixity-check"
  /\ LET rows == {f \in DOMAIN files : files[f].is_accessible}
         current(f) == disk[files[f].file_path]
         mismatch == {f \in rows : current(f) \notin {Missing, Unreadable, files[f].file_hash}}
         raised == ~selectOk \/ ~logOk
         summary == IF ~raised THEN <<AuditRow("logAction", "VALIDATE", "batch-check", now,
                                               <<"complete">>)>>
                    ELSE IF retryOk THEN <<AuditRow("logAction", "VALIDATE", "batch-check",
                                                    now, <<"failed">>)>>
                    ELSE <<>>
     IN /\ AuditRoom(Cardinality(mismatch) + 1)
        /\ \E o \in Orders(IF selectOk THEN mismatch ELSE {}) :
             audit' = audit
                      \o [i \in 1..Len(o) |->
                            AuditRow("logAction", "VALIDATE", o[i], now,
                                     FixityError(files[o[i]].file_hash, current(o[i])))]
                      \o summary
        /\ ret' = [NoRet EXCEPT !.op = "runFixityCheck", !.id = "batch-check",
                     !.val = IF raised /\ ~retryOk THEN "rejected" ELSE "resolved",
                     !.err = IF ~selectOk THEN "db_error"
                             ELSE IF ~logOk THEN "log_error" ELSE "",
                     !.stored = IF raised /\ ~retryOk THEN "unlogged" ELSE "logged",
                     !.num = IF selectOk THEN Cardinality({f \in rows :
                                                current(f) # files[f].file_hash})
                                         ELSE 0]
        /\ sched' = IF raised /\ ~retryOk
                     THEN [sched EXCEPT !.timers = {}]
                     ELSE IF t.kind = "timeout"
                          THEN [sched EXCEPT
                                  !.timers = (@ \ {t}) \cup {Timer(sched.nextId, t.job, "interval")},
                                  !.intervals = [@ EXCEPT ![t.job] = sched.nextId],
                                  !.nextId = @ + 1,
                                  !.late = @ \/ sched.stopped]
                          ELSE [sched EXCEPT !.late = @ \/ sched.stopped]
  /\ UNCHANGED <<files, dc, premis, versions, disk, cv, rd, calls>>
  /\ UNCHANGED <<now, lockoutVars, enc, re, recorded, va, dcm, http>>

\* a timer of the fixity job fires (fileStorage.ts 341-346) and runFixityCheck runs
\* to its end (358-389): verifyAllFiles(500), which writes a VALIDATE row for each
\* mismatch, then the summary row; selectOk = FALSE is verifyAllFiles throwing,
\* logOk = FALSE the summary row failing, retryOk = FALSE the failure row of the
\* catch block failing, which its .catch swallows
RunFixityCheck(t, selectOk, logOk, retryOk) ==
  /\ t \in sched.timers /\ t.job = "fixity-check"
  /\ LET rows == {f \in DOMAIN files : files[f].is_accessible}
         current(f) == disk[files[f].file_path]
         mismatch == {f \in rows : current(f) \notin {Missing, Unreadable, files[f].file_hash}}
         raised == ~selectOk \/ ~logOk
         summary == IF ~raised THEN <<AuditRow("logAction", "VALIDATE", "batch-check", now,
                                               <<"complete">>)>>
                    ELSE IF retryOk THEN <<AuditRow("logAction", "VALIDATE", "batch-check",
                                                    now, <<"failed">>)>>
                    ELSE <<>>
     IN /\ AuditRoom(Cardinality(mismatch) + 1)
        /\ \E o \in Orders(IF selectOk THEN mismatch ELSE {}) :
             audit' = audit
                      \o [i \in 1..Len(o) |->
                            AuditRow("logAction", "VALIDATE", o[i], now,
                                     FixityError(files[o[i]].file_hash, current(o[i])))]
                      \o summary
        /\ ret' = [NoRet EXCEPT !.op = "runFixityCheck", !.id = "batch-check",
                     !.val = "resolved",
                     !.err = IF ~selectOk THEN "db_error"
                             ELSE IF ~logOk THEN "log_error" ELSE "",
                     !.stored = IF raised /\ ~retryOk THEN "unlogged" ELSE "logged",
                     !.num = IF selectOk THEN Cardinality({f \in rows :
                                                current(f) # files[f].file_hash})
                                         ELSE 0]
        /\ sched' = IF t.kind = "timeout"
                     THEN [sched EXCEPT
                             !.timers = (@ \ {t}) \cup {Timer(sched.nextId, t.job, "interval")},
                             !.intervals = [@ EXCEPT ![t.job] = sched.nextId],
                             !.nextId = @ + 1,
                             !.late = @ \/ sched.stopped]
                     ELSE [sched EXCEPT !.late = @ \/ sched.stopped]
  /\ UNCHANGED <<files, dc, premis, versions, disk, cv, rd, calls>>
  /\ UNCHANGED <<now, lockoutVars, enc, re, recorded, va, dcm, http>>

JobsNext ==
  \/ StartAllJobs
  \/ \E t \in AllTimers, selectOk \in BOOLEAN, logOk \in BOOLEAN, retryOk \in BOOLEAN :
       RunFixityCheck(t, selectOk, logOk, retryOk)
  \/ Tamper("pa", "h3")

LockoutNext ==
  \/ \E p \in LProcs, u \in UserNames : RfaRead(p, u) /\ UNCHANGED <<archiveVars, utilVars>>
  \/ \E p \in LProcs : RfaWrite(p) /\ UNCHANGED <<archiveVars, utilVars>>
  \/ \E p \in LProcs, u \in UserNames : IsLockedCheck(p, u) /\ UNCHANGED <<archiveVars, utilVars>>
  \/ \E p \in LProcs : IsLockedUnlock(p) /\ UNCHANGED <<archiveVars, utilVars>>
  \/ \E u \in UserNames : ClearFailedAttempts(u) /\ UNCHANGED <<archiveVars, utilVars>>
  \/ \E u \in UserNames : UnlockAccount(u) /\ UNCHANGED <<archiveVars, utilVars>>
  \/ Tick /\ UNCHANGED <<lockoutVars, archiveVars, utilVars>>

\* ------------------------------------------- MetadataService (Dublin Core)
DcFields == {"title", "creator", "source"}
\* the columns in the SET list of updateDublinCoreMetadata (metadata.ts 153-160)
DcCoalesced == {"title", "creator"}
Undefined == "undefined"               \* a key the updates object does not have

\* the rows schema.sql seeds: each column as inserted ("seed"), and dc_xml
\* '<dc:record></dc:record>', which has none of the elements ("none")
InitDc ==
  dcm = [rows |-> [f \in Seeded |-> [columns |-> [k \in DcFields |-> "seed"],
                                     dc_xml |-> [k \in DcFields |-> "none"]]],
         fileId |-> "none",
         updates |-> [k \in DcFields |-> Undefined]]

\* buildDublinCoreXML(metadata) (metadata.ts 317-345): one element per field, its
\* text the value metadata holds for it; xml2js renders an undefined value as an
\* empty element
BuildDublinCoreXML(metadata) ==
  [k \in DcFields |-> IF metadata[k] = Undefined THEN "" ELSE metadata[k]]

\* COALESCE($n, column)
Coalesce(v, column) == IF v = Undefined THEN column ELSE v

\* updateDublinCoreMetadata(fileId, updates) (metadata.ts 137-180)
UpdateDublinCoreMetadata(f, updates) ==
  /\ IF f \notin dc
       THEN /\ ret' = [NoRet EXCEPT !.op = "updateDublinCoreMetadata", !.id = f,
                                    !.val = "throws", !.err = "Metadata not found"]
            /\ dcm' = [dcm EXCEPT !.fileId = f, !.updates = updates]
       ELSE /\ f \in DOMAIN dcm.rows
            /\ dcm' = [rows |-> [dcm.rows EXCEPT ![f] =
                          [columns |-> [k \in DcFields |->
                                          IF k \in DcCoalesced
                                            THEN Coalesce(updates[k], @.columns[k])
                                            ELSE @.columns[k]],
                           dc_xml |-> BuildDublinCoreXML(updates)]],
                        fileId |-> f,
                        updates |-> updates]
            /\ ret' = [NoRet EXCEPT !.op = "updateDublinCoreMetadata", !.id = f,
                                    !.val = "ok"]
  /\ UNCHANGED <<files, dc, premis, versions, audit, disk, cv, rd, calls>>
  /\ UNCHANGED <<now, lockoutVars, enc, sched, re, recorded, va, http>>

\* updateDublinCoreMetadata requests
DescriptiveNext ==
  \E f \in {"f1", "f3"}, updates \in [DcFields -> {"a", "b", Undefined}] :
     UpdateDublinCoreMetadata(f, updates)

\* -------------------------------------------------------- rate limiting
MaxRequests == 2       \* maxRequests of the limiter
MaxHits == 4           \* no client sends more requests than this in one window

WindowMs == 15 * 60 * 1000             \* part_005 86: windowMs of globalLimiter
NaN == 0 - 2                           \* undefined + 1, and every number made of it
\* what getClientIdentifier can return: the first element of x-forwarded-for as
\* the client sent it
Identifiers == {"10.0.0.1", "10.0.0.2", "constructor"}
\* the keys every object literal inherits from Object.prototype
Inherited == {"constructor"}

\* the store {} of a limiter: own is an own property store[key]; an inherited key
\* reads as an object that has no resetTime, whose count becomes NaN with count++
NoRecord == [own |-> FALSE, count |-> NULL, resetTime |-> NULL]
NoResponse == [op |-> "none", identifier |-> "none", status |-> 0, next |-> FALSE, n |-> 0,
               allowed |-> {}]

InitHttp ==
  http = [store |-> [k \in Identifiers |-> NoRecord],
          hits |-> [k \in Identifiers |-> [n |-> 0, until |-> 0]],
          res |-> NoResponse]

HttpFrame == UNCHANGED <<lockoutVars, archiveVars, enc, sched, re, recorded, va, dcm>>

\* a < b in JavaScript: false when either side is undefined or NaN
JsLess(a, b) == a \notin {NULL, NaN} /\ b \notin {NULL, NaN} /\ a < b

\* isLimited(identifier) (part_005 54-69): the store after the call and its result
IsLimited(store, identifier, at) ==
  LET record == store[identifier]
      found == record.own \/ identifier \in Inherited
  IN IF ~found \/ JsLess(record.resetTime, at)
       THEN [store |-> [store EXCEPT ![identifier] =
                          [own |-> TRUE, count |-> 1, resetTime |-> at + WindowMs]],
             limited |-> FALSE]
       ELSE LET count == IF record.count \in {NULL, NaN} THEN NaN ELSE record.count + 1
            IN [store |-> [store EXCEPT ![identifier].count = count],
                limited |-> JsLess(MaxRequests, count)]

\* globalRateLimiter (part_005 97-116) on a request of the client identifier: 429
\* when isLimited, otherwise the headers and next(). hits counts the requests of the
\* client in its window, which begins with its first request and ends when the
\* reset time of that request has passed
GlobalRateLimiter(identifier) ==
  LET r == IsLimited(http.store, identifier, now)
      h == http.hits[identifier]
      n == IF h.n = 0 \/ now > h.until THEN 1 ELSE h.n + 1
  IN /\ n <= MaxHits
     /\ http' = [store |-> r.store,
                 hits |-> [http.hits EXCEPT ![identifier] =
                            [n |-> n, until |-> IF n = 1 THEN now + WindowMs ELSE h.until]],
                 res |-> [op |-> "globalRateLimiter", identifier |-> identifier,
                          status |-> IF r.limited THEN 429 ELSE 0,
                          next |-> ~r.limited, n |-> n, allowed |-> {}]]
     /\ UNCHANGED now
     /\ HttpFrame

\* cleanup() (part_005 45-52), run by the limiter's interval
Cleanup ==
  /\ http' = [http EXCEPT !.store = [k \in Identifiers |->
                 IF @[k].own /\ JsLess(@[k].resetTime, now) THEN NoRecord ELSE @[k]]]
  /\ http' # http
  /\ UNCHANGED now
  /\ HttpFrame

\* users.role (schema.sql 23); "none" is a request on which authenticate set no user
Roles == {"reader", "curator", "admin"}
RouteRoles == {{"curator", "admin"}, {"admin"}}

\* the middleware authorize(allowedRoles) returns (auth.ts 64-89), run for a request
\* of a user with this role: the 403 branch has no return, so next() follows it
Authorize(allowedRoles, role) ==
  /\ http' = [http EXCEPT !.res =
        [NoResponse EXCEPT !.op = "authorize", !.identifier = role,
                           !.allowed = allowedRoles,
                           !.status = IF role = "none" THEN 401
                                      ELSE IF role \notin allowedRoles THEN 403 ELSE 0,
                           !.next = (role # "none")]]
  /\ UNCHANGED now
  /\ HttpFrame

\* a request to DELETE /api/files/:id or POST /api/files/:id/restore (part_003
\* 481-530): authorize, and the handler's FileService call once next() was called
AccessNext ==
  \/ \E allowedRoles \in RouteRoles, role \in Roles \cup {"none"} :
       Authorize(allowedRoles, role)
  \/ \E f \in Seeded : http.res.op = "authorize" /\ http.res.next /\ DeleteFile(f, TRUE)
  \/ \E f \in Seeded : http.res.op = "authorize" /\ http.res.next /\ RestoreFile(f)

RateLimitNext ==
  \/ \E identifier \in Identifiers : GlobalRateLimiter(identifier)
  \/ Cleanup
  \/ Tick /\ UNCHANGED <<lockoutVars, archiveVars, utilVars>>

InitUtil == InitEnc /\ InitSched /\ InitEvents /\ InitBatch /\ InitDc /\ InitHttp

\* verifyFileIntegrity on content that changes on disk
IntegrityNext ==
  \/ \E path \in Paths, h \in Digests : VerifyFileIntegrity(path, h)
  \/ \E path \in Paths, h \in Digests \cup {Missing, Unreadable} : Tamper(path, h)

\* failed attempts and getLockoutInfo requests
\* every operation on the lockout record of one identity, interleaved
RecordNext ==
  \/ \E p \in LProcs : RfaRead(p, "alice") /\ UNCHANGED <<archiveVars, utilVars>>
  \/ \E p \in LProcs : RfaWrite(p) /\ UNCHANGED <<archiveVars, utilVars>>
  \/ \E p \in LProcs : IsLockedCheck(p, "alice") /\ UNCHANGED <<archiveVars, utilVars>>
  \/ \E p \in LProcs : IsLockedUnlock(p) /\ UNCHANGED <<archiveVars, utilVars>>
  \/ \E p \in LProcs : GliRead(p, "alice") /\ UNCHANGED <<archiveVars, utilVars>>
  \/ \E p \in LProcs : GliUnlock(p) /\ UNCHANGED <<archiveVars, utilVars>>
  \/ ClearFailedAttempts("alice") /\ UNCHANGED <<archiveVars, utilVars>>
  \/ UnlockAccount("alice") /\ UNCHANGED <<archiveVars, utilVars>>
  \/ Tick /\ UNCHANGED <<lockoutVars, archiveVars, utilVars>>

\* logins of one identity and of an unknown one, and the clock
LoginNext ==
  \/ \E u \in UserNames, passwordOk, infoOk \in BOOLEAN :
       Login(u, passwordOk, infoOk) /\ UNCHANGED <<archiveVars, utilVars>>
  \/ Tick /\ UNCHANGED <<lockoutVars, archiveVars, utilVars>>

\* searches of the archive, between soft deletions
SearchNext ==
  \/ \E given \in SUBSET {"accessLevel", "category", "creator", "dateFrom", "dateTo"},
        limit \in {1, 2}, offset \in {0, 1} : SearchFiles(given, limit, offset)
  \/ \E f \in Seeded : DeleteFile(f, TRUE)

InfoNext ==
  \/ \E p \in LProcs : RfaRead(p, "alice") /\ UNCHANGED <<archiveVars, utilVars>>
  \/ \E p \in LProcs : RfaWrite(p) /\ UNCHANGED <<archiveVars, utilVars>>
  \/ \E p \in LProcs, u \in UserNames : GliRead(p, u) /\ UNCHANGED <<archiveVars, utilVars>>
  \/ \E p \in LProcs : GliUnlock(p) /\ UNCHANGED <<archiveVars, utilVars>>
  \/ Tick /\ UNCHANGED <<lockoutVars, archiveVars, utilVars>>

\* the steps of createVersion requests T on files F with paths P and digests H
CreateVersion(T, F, P, H) ==
  \/ \E t \in T, f \in F, path \in P, hash \in H : CvBegin(t, f, path, hash)
  \/ \E t \in T : CvInsertVersion(t)
  \/ \E t \in T : CvUpdateFile(t)
  \/ \E t \in T : CvPremisRead(t)
  \/ \E t \in T : CvPremisWrite(t)
  \/ \E t \in T, ok \in BOOLEAN : CvAudit(t, ok)
  \/ \E t \in T : CvCommit(t)

\* concurrent createVersion requests on the seeded files
PointerNext ==
  \/ CreateVersion(VProcs, Seeded, {"pa"}, {"h1", "h3"})

\* concurrent createVersion requests
VersionsNext ==
  \/ CreateVersion(VProcs, FileIds, Paths, Digests)

\* fixity checks, with content changing on disk and by createVersion
FixityNext ==
  \/ \E f \in FileIds : VerifyFile(f)
  \/ \E f \in FileIds : GetFixityReport(f)
  \/ \E path \in Paths, h \in {"h1", "h2", Missing} : Tamper(path, h)
  \/ CreateVersion({"t1"}, {"f1"}, Paths, {"h3"})

\* the ledger, its writers and its reader
LedgerNext ==
  \/ GetFile("f1", TRUE, TRUE)
  \/ CreateVersion({"t1"}, {"f1"}, {"pa"}, {"h3"})
  \/ \E q \in Queries : AuditCount("f1", q[1], q[2])
  \/ AuditSelect
  \/ now < MaxLedgerTicks * TickMs /\ Tick /\ UNCHANGED <<lockoutVars, archiveVars, utilVars>>

\* registration, soft delete and restore
FilesNext ==
  \/ \E id \in FileIds, path \in Paths, hash \in Digests,
        dbFail \in {"none", "dc", "premis", "audit", "commit"} :
          RegisterFile(id, path, hash, dbFail)
  \/ \E f \in FileIds, ok \in BOOLEAN : DeleteFile(f, ok)
  \/ \E f \in FileIds : RestoreFile(f)
  \/ \E f \in FileIds : GetFile(f, FALSE, TRUE)
  \/ \E path \in Paths : Tamper(path, Missing)
  \/ CreateVersion({"t1"}, {"f1"}, {"pa"}, {"h3"})

DigestsNext ==
  \/ \E hash \in Digests : RegisterFile("f3", "pa", hash, "none")
  \/ CreateVersion(VProcs, Seeded, {"pa"}, Digests)

BatchNext ==
  \/ \E limit \in {0, 1}, selectOk \in BOOLEAN : VaBegin(limit, selectOk)
  \/ \E fault \in BOOLEAN : VaStep(fault)
  \/ VaEnd
  \/ \E path \in Paths, h \in {"h1", "h2", Missing} : Tamper(path, h)
  \/ DeleteFile("f2", TRUE)

VerifyNext ==
  \/ \E f \in {"f1", "f3"} : VerifyFile(f)
  \/ \E h \in {"h1", "h3", Missing, Unreadable} : Tamper("pa", h)
  \/ CreateVersion({"t1"}, {"f1"}, {"pa"}, {"h3"})

FrameNext ==
  \/ DeleteFile("f1", TRUE)
  \/ RestoreFile("f1")
  \/ UpdateFileMetadata("f1", TRUE, TRUE)
  \/ ValidateFixity("e1", "f1", "h3")
  \/ ReSelect("e1")
  \/ ReUpdate("e1")
  \/ VerifyFile("f1")
  \/ VaBegin(1, TRUE)
  \/ VaStep(FALSE)
  \/ VaEnd
  \/ CreateVersion({"t1"}, {"f1"}, {"pb"}, {"h3"})

BestEffortNext ==
  \/ \E logOk \in BOOLEAN : GetFile("f1", TRUE, logOk)
  \/ \E logOk \in BOOLEAN : RaiseAlert("alert_critical", logOk)
  \/ \E job \in {"batch-check", "backup_job"}, logOk \in BOOLEAN, retryOk \in BOOLEAN :
       JobSummary(job, logOk, retryOk)

vars == <<now, users, lk, lret, hist, files, dc, premis, versions, audit, disk, cv, rd,
          calls, ret, enc, sched, re, recorded, va, dcm, http>>
Init == now = 0 /\ InitLockout /\ InitArchive /\ InitUtil
SpecLockout == Init /\ [][LockoutNext]_vars
SpecInfo == Init /\ [][InfoNext]_vars
SpecRateLimit == Init /\ [][RateLimitNext]_vars
SpecJobs == Init /\ [][JobsNext]_vars
SpecIntegrity == Init /\ [][IntegrityNext]_vars
SpecDescriptive == Init /\ [][DescriptiveNext]_vars
SpecVersions == Init /\ [][VersionsNext]_vars
SpecFixity == Init /\ [][FixityNext]_vars
SpecLedger == Init /\ [][LedgerNext]_vars
SpecFiles == Init /\ [][FilesNext]_vars
SpecKey == Init /\ [][KeyNext]_vars
SpecObjects == Init /\ [][ObjectsNext]_vars
SpecAccess == Init /\ [][AccessNext]_vars
SpecRecord == Init /\ [][RecordNext]_vars
SpecLogin == Init /\ [][LoginNext]_vars
SpecSearch == Init /\ [][SearchNext]_vars
SpecPointer == Init /\ [][PointerNext]_vars
SpecCrypto == Init /\ [][CryptoNext]_vars
SpecScheduler == Init /\ [][SchedulerNext]_vars
SpecEvents == Init /\ [][EventsNext]_vars
SpecBestEffort == Init /\ [][BestEffortNext]_vars
SpecDigests == Init /\ [][DigestsNext]_vars
SpecBatch == Init /\ [][BatchNext]_vars
SpecVerify == Init /\ [][VerifyNext]_vars
SpecFrame == Init /\ [][FrameNext]_vars

\* ------------------------------------------------------------------ claims

\* C4: an existing identity that starts Clear and has k failed attempts recorded one
\* after the other, with no clear, unlock or lock expiry in between, is not locked
\* while k < 5 and is locked once k = 5: isAccountLocked returns false, resp. true,
\* and the lock set by the 5th attempt ends 15 minutes after that attempt.
C4_LockoutThreshold ==
  /\ \A u \in Existing : SeqCount(u) # NULL =>
       /\ SeqCount(u) < LOCKOUT_THRESHOLD => users[u].locked_until = NULL
       /\ SeqCount(u) = LOCKOUT_THRESHOLD =>
            users[u].locked_until = hist[u].at + LOCKOUT_DURATION_MS
  /\ (lret.op = "isAccountLocked" /\ lret.hk # NULL) =>
       /\ lret.hk < LOCKOUT_THRESHOLD => lret.ret = "false"
       /\ (lret.hk = LOCKOUT_THRESHOLD /\ lret.at < lret.hat + LOCKOUT_DURATION_MS) =>
            lret.ret = "true"

C4_Witness ==
  /\ lret.op = "isAccountLocked" /\ lret.hk = LOCKOUT_THRESHOLD /\ lret.ret = "true"
  /\ users[lret.user].locked_until = lret.hat + LOCKOUT_DURATION_MS

\* C5: concurrent recordFailedAttempt calls on one identity serialize their
\* increments: when no call is under way, the counter equals the number of failed
\* attempts recorded since the identity was last Clear, and the identity is locked
\* whenever that number is 5 or more.
C5_SerializedIncrements ==
  \A u \in Existing :
    (hist[u].clean /\ \A p \in LProcs : ~(lk[p].pc # "idle" /\ lk[p].user = u)) =>
       /\ users[u].failed_login_attempts = hist[u].k
       /\ hist[u].k >= LOCKOUT_THRESHOLD => users[u].locked_until # NULL

\* C6: isAccountLocked on an identity locked until u returns true and changes
\* nothing while now < u; from now >= u on it returns false and its lazy unlock
\* leaves the counter 0 and locked_until null.
C6_LockExpiry ==
  /\ [](lret.op = "isAccountLocked" /\ lret.lockedUntil # NULL =>
          lret.ret = IF lret.at < lret.lockedUntil THEN "true" ELSE "false")
  /\ [][ /\ \A p \in LProcs : (lk[p].pc = "isl_unlock" /\ lk'[p].pc = "idle") =>
                                 /\ users'[lk[p].user] = ClearRow
                                 /\ lret'.ret = "false"
         /\ (lret' # lret /\ lret'.op = "isAccountLocked" /\ lret'.ret = "true") =>
               users' = users ]_vars

C6_Witness ==
  /\ lret.op = "isAccountLocked" /\ lret.lockedUntil # NULL
  /\ lret.at >= lret.lockedUntil /\ lret.ret = "false"
  /\ users[lret.user] = ClearRow

\* the records registerFile writes for id: the files row, the Dublin Core row, the
\* PREMIS row and a CREATE row of audit_log
RegisteredRows(id) ==
  <<id \in DOMAIN files, id \in dc, id \in DOMAIN premis, HasCreateEntry(id)>>

VersionNumbers(f) == {w.version_number : w \in {v \in versions : v.file_id = f}}

\* C2: once the createVersion calls on a file have all ended, the N of them that
\* got as far as numbering a version (none failed for a cause of its own) have
\* produced exactly the version numbers 2..N+1, each once: none is lost to a
\* conflict with another call.
C2_VersionNumbers ==
  \A f \in DOMAIN files :
    /\ \A v, w \in versions :
         (v.file_id = f /\ w.file_id = f /\ v.version_number = w.version_number) => v = w
    /\ (\A t \in VProcs : ~(cv[t].pc # "idle" /\ cv[t].fileId = f)) =>
         VersionNumbers(f) = 2..(1 + calls[f].numbered + calls[f].conflict)

Count(s, P(_)) == Len(SelectSeq(s, P))

\* C3: in every state a reader can see, the effects of createVersion on a file are
\* applied together or not at all: the file has as many version rows as
\* modification events and as UPDATE entries written by logAction, and its version
\* pointer is one more than that number.
C3_CreateVersionAtomic ==
  \A f \in DOMAIN files :
    LET nv == Cardinality({v \in versions : v.file_id = f})
        ne == IF f \in DOMAIN premis
                THEN Count(premis[f].events, LAMBDA e : e.type = "modification") ELSE 0
        na == Count(audit, LAMBDA r : r.by = "logAction" /\ r.action = "UPDATE"
                                                       /\ r.resource_id = f)
    IN nv = ne /\ ne = na /\ files[f].current_version = 1 + nv

\* C7: a verifyFile call that finds content on disk whose digest differs from the
\* registered digest returns isValid = false and has appended one VALIDATE entry
\* for the file whose message names the stored and the current digest.
C7_TamperDetected ==
  (/\ ret.op = "verifyFile" /\ ret.stored # "none"
   /\ ret.current # Missing /\ ret.current # ret.stored) =>
     /\ ret.val = "false"
     /\ ret.num = 1
     /\ ret.len \in 1..Len(audit)
     /\ audit[ret.len].by = "logAction"
     /\ audit[ret.len].action = "VALIDATE"
     /\ audit[ret.len].resource_id = ret.id
     /\ audit[ret.len].error_message = FixityError(ret.stored, ret.current)

C7_Witness ==
  /\ ret.op = "verifyFile" /\ ret.val = "false" /\ ret.num = 1
  /\ ret.stored = "h1" /\ ret.current = "h2"
  /\ audit[ret.len].error_message = FixityError("h1", "h2")

\* C8: getFixityReport reports unknown for a file that does not exist, invalid when
\* the most recent recorded check of the file failed, and valid otherwise.
C8_FixityReport ==
  ret.op = "getFixityReport" =>
    ret.val = IF ret.id \notin DOMAIN files THEN "unknown"
              ELSE IF \E i \in 1..ret.len : /\ audit[i].action = "VALIDATE"
                                            /\ audit[i].resource_id = ret.id
                THEN "invalid"
              ELSE "valid"

\* C9 as stated: getResourceAuditLog returns as total the number N of logAction
\* calls made for the resource, and those N entries, newest first.
C9_TotalIsAppends ==
  ret.op = "getResourceAuditLog" =>
    LET appended == {i \in 1..ret.len0 : /\ audit[i].resource_id = ret.id
                                         /\ audit[i].by = "logAction"}
    IN /\ ret.num = Cardinality(appended)
       /\ {ret.entries[k] : k \in 1..Len(ret.entries)} = appended
       /\ \A k \in 1..Len(ret.entries) - 1 :
            audit[ret.entries[k]].created_at >= audit[ret.entries[k + 1]].created_at

Smaller(a, b) == IF a < b THEN a ELSE b

\* e is the page LIMIT limit OFFSET offset of the rows numbered M, newest first
IsNewestFirstPage(e, M, limit, offset) ==
  LET at(i) == audit[i].created_at
      left == IF Cardinality(M) > offset THEN Cardinality(M) - offset ELSE 0
  IN /\ Len(e) = Smaller(limit, left)
     /\ \A k \in 1..Len(e) : e[k] \in M
     /\ \A j, k \in 1..Len(e) : j # k => e[j] # e[k]
     /\ \A k \in 1..Len(e) - 1 : at(e[k]) >= at(e[k + 1])
     /\ \A k \in 1..Len(e) :
          /\ Cardinality({m \in M : at(m) > at(e[k])}) <= offset + k - 1
          /\ Cardinality({m \in M : at(m) >= at(e[k])}) >= offset + k

\* C9: the ledger is append-only. getResourceAuditLog returns as total the number
\* of rows of the resource in the ledger at its COUNT query, written by logAction
\* or by the trigger on files, and as entries the page [offset, offset + limit) of
\* the resource's rows at its SELECT, newest first; no step changes or removes a
\* row, so a row returned once is returned with the same fields by every later read.
C9_LedgerAppendOnly ==
  /\ [](ret.op = "getResourceAuditLog" =>
          /\ ret.len0 <= ret.len /\ ret.len <= Len(audit)
          /\ ret.num = Cardinality(Matching(ret.id, ret.len0))
          /\ IsNewestFirstPage(ret.entries, Matching(ret.id, ret.len),
                               ret.limit, ret.offset))
  /\ [][ /\ Len(audit') >= Len(audit)
         /\ \A i \in 1..Len(audit) : audit'[i] = audit[i] ]_vars

C9_Witness ==
  /\ ret.op = "getResourceAuditLog" /\ ret.len0 < ret.len
  /\ Len(ret.entries) = 2 /\ ret.num = 1
  /\ audit[ret.entries[1]].created_at > audit[ret.entries[2]].created_at
  /\ \E k \in 1..Len(ret.entries) : audit[ret.entries[k]].by = "logAction"
  /\ \E k \in 1..Len(ret.entries) : audit[ret.entries[k]].by = "trigger"

Flags(f) == <<files[f].is_accessible, files[f].is_deleted>>

\* C10 as stated: for an existing file in any state, restoreFile right after
\* deleteFile leaves the accessible and deleted flags as they were before the
\* deleteFile, and getFile returns the file.
C10_FlagsAsBeforeDelete ==
  /\ (ret.op = "restoreFile" /\ ret.pre # <<>>) => Flags(ret.id) = ret.pre
  /\ (ret.op = "getFile" /\ ret.id \in DOMAIN files) => ret.val = "file"

\* C10: for an existing file that is not soft-deleted, restoreFile right after
\* deleteFile leaves the accessible and deleted flags as they were before the
\* deleteFile; getFile returns an existing file, never null, whatever its flags;
\* no step removes a files row.
C10_SoftDeleteReversible ==
  /\ []((ret.op = "restoreFile" /\ ret.pre # <<>> /\ ret.pre[2] = FALSE) =>
           Flags(ret.id) = ret.pre)
  /\ []((ret.op = "getFile" /\ ret.id \in DOMAIN files) => ret.val = "file")
  /\ [][DOMAIN files \subseteq DOMAIN files']_vars

C10_Witness ==
  /\ ret.op = "restoreFile" /\ ret.pre = <<TRUE, FALSE>>
  /\ Flags(ret.id) = <<TRUE, FALSE>>

\* C11: initialize() succeeds exactly when the configured key is a string that
\* decodes to 32 bytes, and throws when the key is unset, empty, the placeholder or
\* decodes to any other number of bytes.
C11_InitializeKey ==
  enc.eret.op = "initialize" =>
    (enc.eret.val = "ok") =
      (/\ enc.eret.env.kind = "hex"
       /\ enc.eret.env.digits \in {2 * KEY_BYTES, 2 * KEY_BYTES + 1})

C11_Witness ==
  /\ enc.eret.op = "initialize" /\ enc.eret.val = "throws"
  /\ enc.eret.env = HexKey("k1", KEY_BYTES, FALSE)

\* C12: decrypt of a payload that encrypt wrote returns the plaintext given to
\* encrypt when the payload is unaltered and the key is the same, and throws when
\* one character of the payload was replaced or the key is another one.
C12_RoundTrip ==
  enc.eret.op = "decrypt" =>
    IF enc.payload.mark = NoMark /\ enc.eret.kid = enc.payload.kid
      THEN enc.eret.val = "ok" /\ enc.eret.text = enc.payload.plain
      ELSE enc.eret.val = "throws"

\* C13: once stopAllJobs has been called, no timer starts a job callback, at
\* whatever point of the schedule the stop comes and however often the jobs were
\* started before.
C13_NothingFiresAfterStop == ~sched.late

\* C14: concurrent recordPremisEvent calls on one file do not overwrite one
\* another: once all calls have completed, the file's event list holds the events
\* it had before and one more for every completed call.
C14_NoLostEvent ==
  (\A p \in EProcs : re[p].pc = "idle") =>
    \A f \in Seeded :
      /\ Len(premis[f].events) = 1 + recorded[f].done
      /\ premis[f].events[1].type = "creation"

\* C15: a failing ledger append that only documents a side event (the READ row of
\* getFile, the alert row of raiseAlert, the summary row of a scheduler job) is
\* not propagated: the operation returns its normal result.
C15_LoggingNeverPropagates ==
  ret.op \in {"getFile", "raiseAlert", "job"} => ret.val # "throws"

\* the records of the store that every connection sees
Records == <<files, dc, premis, versions, audit>>

\* C16: no two files rows ever carry the same file_hash; a registerFile or
\* createVersion call that would give a file the digest of another file fails on
\* the uniqueness of file_hash, and neither the failing step nor any step of the
\* call before it changes a record.
C16_DigestUnique ==
  [][/\ \A f, g \in DOMAIN files' : f # g => files'[f].file_hash # files'[g].file_hash
     /\ (ret' # ret /\ ret'.val = "duplicate_hash") =>
          /\ UNCHANGED Records
          /\ ret'.op = "createVersion" =>
               \E t \in VProcs : /\ cv[t].pc = "cv_update" /\ cv'[t] = IdleCv
                                 /\ cv[t].fileId = ret'.id
                                 /\ HashTaken(cv[t].newHash, cv[t].fileId)
     /\ \A t \in VProcs :
          (cv'[t] # cv[t] /\ cv[t].pc \in {"idle", "cv_insert", "cv_update"}) =>
            UNCHANGED Records
     /\ \A t \in VProcs :
          (cv[t].pc = "cv_update" /\ cv'[t].pc = "cv_premis_read") =>
            ~HashTaken(cv[t].newHash, cv[t].fileId)]_vars

C16_Witness ==
  /\ ret.op = "createVersion" /\ ret.val = "duplicate_hash" /\ ret.id = "f2"
  /\ files["f1"].file_hash = "h3" /\ files["f2"].file_hash = "h2"
  /\ \A t \in VProcs : cv[t].pc = "idle"

\* C19: verifyAllFiles calls verifyFile on every row it selected, whatever
\* verifyFile returned for the rows before; its report has total = the number of
\* rows selected, verified + failed = total and one entry in errors for every row
\* that failed, in the order of the rows; the call throws only when its SELECT
\* fails, before any file is verified.
C19_BatchNeverAborts ==
  /\ va.pc = "done" =>
       /\ Len(va.outcomes) = Len(va.rows)
       /\ va.total = Len(va.rows)
       /\ va.verified + va.failed = va.total
       /\ Len(va.errors) = va.failed
       /\ va.verified = Cardinality({k \in 1..Len(va.rows) : va.outcomes[k] = "true"})
       /\ \A k \in 1..Len(va.rows) :
            va.outcomes[k] = "false" =>
              Cardinality({e \in 1..Len(va.errors) :
                             va.errors[e].fileId = va.rows[k]}) = 1
       /\ \A e \in 1..Len(va.errors) :
            \E k \in 1..Len(va.rows) :
              va.rows[k] = va.errors[e].fileId /\ va.outcomes[k] = "false"
  /\ (ret.op = "verifyAllFiles" /\ ret.val = "throws") => va.outcomes = <<>>
  /\ (ret.op = "verifyAllFiles" /\ ret.val = "report") => va.pc = "done"

C19_Witness ==
  /\ va.pc = "done" /\ ret.op = "verifyAllFiles" /\ ret.val = "report"
  /\ va.total = 2 /\ va.outcomes = <<"false", "true">>
  /\ va.errors[1].error = "File does not exist on disk"

\* C17: file_hash and current_version of a file change only in the step that
\* commits a createVersion on it: deleteFile, restoreFile, updateFileMetadata,
\* recordPremisEvent, validateFixity, verifyFile and verifyAllFiles leave them as
\* they are, and the commit adds a version row that holds the digest replaced.
C17_DigestFrame ==
  [][/\ DOMAIN files' = DOMAIN files
     /\ \A f \in DOMAIN files :
          (\/ files'[f].file_hash # files[f].file_hash
           \/ files'[f].current_version # files[f].current_version) =>
            /\ \E t \in VProcs : /\ cv[t].pc = "cv_commit" /\ cv[t].fileId = f
                                 /\ cv'[t] = IdleCv
            /\ files'[f].current_version = files[f].current_version + 1
            /\ [file_id |-> f, version_number |-> files'[f].current_version,
                file_hash |-> files'[f].file_hash,
                previousHash |-> files[f].file_hash] \in versions' \ versions]_vars

C17_Witness ==
  /\ files["f1"].file_hash = "h3" /\ files["f1"].current_version = 2
  /\ [file_id |-> "f1", version_number |-> 2, file_hash |-> "h3",
      previousHash |-> "h1"] \in versions
  /\ ret.op = "restoreFile" /\ ret.id = "f1"
  /\ \E i \in 1..Len(audit) : audit[i].action = "DELETE"

\* C18: verifyFile on a registered file whose content at file_path has the digest
\* of the files row, the row of a createVersion included, returns isValid = true
\* and writes no ledger entry.
C18_UnmodifiedIsValid ==
  [][(/\ ret' # ret /\ ret'.op = "verifyFile" /\ ret'.id \in DOMAIN files
      /\ disk[files[ret'.id].file_path] = files[ret'.id].file_hash)
       => ret'.val = "true" /\ ret'.err = "" /\ UNCHANGED audit]_vars

C18_Witness ==
  /\ ret.op = "verifyFile" /\ ret.id = "f1" /\ ret.val = "true"
  /\ files["f1"].current_version = 2 /\ files["f1"].file_hash = "h3"
  /\ disk["pa"] = "h3" /\ premis["f1"].message_digest = "h1"

\* C20: verifyFile on a registered file whose file_path holds no content or content
\* that cannot be read returns isValid = false with an error (for missing content,
\* 'File does not exist on disk'), writes no ledger entry and does not throw.
C20_MissingContent ==
  [][(/\ ret' # ret /\ ret'.op = "verifyFile" /\ ret'.id \in DOMAIN files
      /\ disk[files[ret'.id].file_path] \in {Missing, Unreadable})
       => /\ ret'.val = "false"
          /\ ret'.err = IF disk[files[ret'.id].file_path] = Missing
                          THEN "File does not exist on disk" ELSE "read_error"
          /\ UNCHANGED audit]_vars

C20_Witness ==
  /\ ret.op = "verifyFile" /\ ret.id = "f1" /\ ret.val = "false"
  /\ ret.err = "File does not exist on disk"
  /\ disk[files["f1"].file_path] = Missing

\* C21: recordFailedAttempt on an identity whose lock has expired when the call
\* reads the clock (now >= locked_until, the row not yet cleared) writes counter 1
\* and locked_until null instead of incrementing the counter it read.
C21_ExpiredLockResets ==
  [][\A p \in LProcs :
       (/\ lk[p].pc = "rfa_write" /\ lk'[p].pc = "idle"
        /\ lk[p].lockedUntil # NULL /\ lk[p].at >= lk[p].lockedUntil) =>
         /\ users'[lk[p].user].failed_login_attempts = 1
         /\ users'[lk[p].user].locked_until = NULL]_vars

\* C22: clearFailedAttempts and unlockAccount leave an existing identity Clear
\* (counter 0, locked_until and lockout_reason null) whatever its row held before,
\* and isAccountLocked on a row without a lock returns false.
C22_ResetToClear ==
  /\ [][(lret' # lret /\ lret'.op = "reset") => users'[lret'.user] = ClearRow]_vars
  /\ [](lret.op = "isAccountLocked" /\ lret.lockedUntil = NULL => lret.ret = "false")

C22_Witness ==
  /\ lret.op = "reset" /\ lret.lockedUntil # NULL /\ lret.at < lret.lockedUntil
  /\ users[lret.user] = ClearRow

\* C23: a getLockoutInfo call that performs the lazy unlock returns the counter and
\* lockedUntil as they are stored after that unlock (0 and null), and reports the
\* identity as not locked.
C23_InfoIsCurrent ==
  [][\A p \in LProcs :
       (lk[p].pc = "gli_unlock" /\ lk'[p].pc = "idle") =>
         /\ lret'.ret = "false"
         /\ lret'.attempts = users'[lk[p].user].failed_login_attempts
         /\ lret'.lockedUntil = users'[lk[p].user].locked_until]_vars

\* C24: updateDublinCoreMetadata changes exactly the supplied fields of the record,
\* in its columns and in dc_xml, and every absent field keeps its previous value in
\* both.
C24_PartialUpdate ==
  [][(dcm' # dcm /\ dcm'.fileId \in DOMAIN dcm.rows /\ ret'.val = "ok") =>
       LET f == dcm'.fileId
       IN \A k \in DcFields :
            /\ dcm'.rows[f].columns[k] = Coalesce(dcm'.updates[k], dcm.rows[f].columns[k])
            /\ dcm'.rows[f].dc_xml[k] = Coalesce(dcm'.updates[k], dcm.rows[f].dc_xml[k])]_vars

\* C25: a validateFixity call on a file with a PREMIS record returns whether
\* currentHash equals the stored message_digest, and the list it stores is the list
\* it loaded and one validation event that tells the outcome and the two digests,
\* when the check passes and when it fails.
C25_ValidationRecorded ==
  [][\A p \in EProcs :
       (re[p].pc = "re_update" /\ re[p].caller = "validateFixity" /\ re'[p].pc = "idle") =>
         LET f == re[p].fileId
             isValid == premis[f].message_digest = re[p].currentHash
             stored == premis'[f].events
             n == Len(stored)
         IN /\ ret'.op = "validateFixity" /\ ret'.id = f
            /\ ret'.val = (IF isValid THEN "true" ELSE "false")
            /\ n = Len(re[p].events) + 1
            /\ SubSeq(stored, 1, n - 1) = re[p].events
            /\ stored[n] = PremisEvent("validation",
                                       IF isValid THEN "passed" ELSE "FAILED",
                                       premis[f].message_digest, re[p].currentHash)]_vars

C25_Witness ==
  /\ ret.op = "validateFixity" /\ ret.val = "false" /\ ret.id \in DOMAIN premis
  /\ LET ev == premis[ret.id].events
     IN /\ Len(ev) > 1
        /\ ev[Len(ev)].type = "validation" /\ ev[Len(ev)].outcome = "FAILED"
        /\ ev[Len(ev)].stored # ev[Len(ev)].current

\* C26: the UPDATE of a recordPremisEvent call leaves the file's event list as it
\* was with one event added at its end, and a call on a file without a PREMIS
\* record throws 'PREMIS metadata not found' and changes no record.
C26_AppendOnly ==
  [][\A p \in EProcs :
       /\ (re[p].pc = "re_update" /\ re'[p].pc = "idle") =>
            LET f == re[p].fileId
                n == Len(premis'[f].events)
            IN /\ n = Len(premis[f].events) + 1
               /\ SubSeq(premis'[f].events, 1, n - 1) = premis[f].events
       /\ (re[p].pc = "re_select" /\ re[p].fileId \notin DOMAIN premis) =>
            (re'[p] # re[p] => /\ ret'.val = "throws"
                               /\ ret'.err = "PREMIS metadata not found"
                               /\ premis' = premis)]_vars

\* C27: once no createVersion call is under way, message_digest of a file's PREMIS
\* record equals the file's file_hash.
C27_PremisDigestCurrent ==
  (\A t \in VProcs : cv[t].pc = "idle") =>
    \A f \in DOMAIN files \cap DOMAIN premis :
      premis[f].message_digest = files[f].file_hash

\* a step that is a restoreFile call returning
RestoreStep ==
  /\ ret'.op = "restoreFile"
  /\ cv' = cv /\ disk' = disk
  /\ ret' # ret \/ audit' # audit \/ files' # files

\* C28 as stated: restoreFile clears the soft-delete flags and the ledger is the
\* same before and after the call.
C28_LedgerUnchanged ==
  [][RestoreStep =>
       /\ audit' = audit
       /\ ret'.id \in DOMAIN files =>
            ~files'[ret'.id].is_deleted /\ files'[ret'.id].is_accessible]_vars

\* C28: restoreFile clears the soft-delete flags and makes no logAction call; the
\* trigger on files adds one UPDATE row for the file row the call updates, so the
\* ledger after the call is the ledger before it and that row for an existing
\* file, and the ledger before it for an unknown id.
C28_RestoreLedger ==
  [][RestoreStep =>
       LET f == ret'.id
       IN IF f \in DOMAIN files
            THEN /\ ~files'[f].is_deleted /\ files'[f].is_accessible
                 /\ Len(audit') = Len(audit) + 1
                 /\ SubSeq(audit', 1, Len(audit)) = audit
                 /\ audit'[Len(audit')].by = "trigger"
                 /\ audit'[Len(audit')].action = "UPDATE"
                 /\ audit'[Len(audit')].resource_id = f
            ELSE audit' = audit /\ files' = files]_vars

C28_Witness ==
  /\ ret.op = "restoreFile" /\ ret.pre # <<>> /\ ret.id \in DOMAIN files
  /\ ~files[ret.id].is_deleted /\ files[ret.id].is_accessible
  /\ audit[Len(audit)].by = "trigger" /\ audit[Len(audit)].action = "UPDATE"
  /\ audit[Len(audit)].resource_id = ret.id
  /\ audit[Len(audit) - 1].by = "trigger"
  /\ audit[Len(audit) - 2].action = "DELETE"

\* C29: the isAccessible that getFile reports for a file is the is_accessible of
\* its files row: false after deleteFile, true again after restoreFile.
C29_ReportedAccessibility ==
  (ret.op = "getFile" /\ ret.val = "file") =>
    ret.isAccessible = files[ret.id].is_accessible

\* C30: verifyFileIntegrity returns true exactly when the digest of the content at
\* the path equals the expected digest, returns false on a mismatch, and throws the
\* I/O error when the content cannot be read.
C30_VerifyIntegrity ==
  ret.op = "verifyFileIntegrity" =>
    /\ (ret.val = "true") = (ret.current = ret.stored)
    /\ (ret.current \in Digests /\ ret.current # ret.stored) => ret.val = "false"
    /\ ret.current = "io_error" => ret.val = "throws"

\* C31: a run of the fixity job never rejects, whether verifyAllFiles throws, the
\* summary row fails or the failure row fails as well, and every job that was
\* started keeps a timer armed, so its later ticks run.
C31_JobNeverCrashes ==
  /\ ret.op = "runFixityCheck" => ret.val = "resolved"
  /\ sched.starts > 0 => \A job \in Jobs : \E t \in sched.timers : t.job = job

C31_Witness ==
  /\ ret.op = "runFixityCheck" /\ ret.err = "" /\ ret.val = "resolved"
  /\ \E i \in 1..Len(audit) : audit[i].error_message = <<"failed">>
  /\ \E i \in 1..Len(audit) : audit[i].error_message = <<"complete">>
  /\ \E t \in sched.timers : t.job = "fixity-check" /\ t.kind = "interval"

\* C32: the n-th request of a client in one window is passed to next() exactly
\* when n <= maxRequests and answered 429 otherwise, the count restarts once the
\* reset time has passed, and the requests of one client leave the records of the
\* others alone.
C32_LimitPerWindow ==
  /\ [](http.res.op = "globalRateLimiter" =>
          /\ http.res.next = (http.res.n <= MaxRequests)
          /\ http.res.status = (IF http.res.n <= MaxRequests THEN 0 ELSE 429))
  /\ [][\A k \in Identifiers :
          (http'.res # http.res /\ http'.res.identifier # k) =>
             \/ http'.store[k] = http.store[k]
             \/ http'.res.op # "globalRateLimiter"]_vars

\* C33: a file's current_version is at least 1, never decreases, and is one more
\* than the number of the file's version rows, which are numbered exactly
\* 2..current_version.
C33_VersionPointer ==
  /\ [](\A f \in DOMAIN files :
          /\ files[f].current_version >= 1
          /\ files[f].current_version = 1 + Cardinality({v \in versions : v.file_id = f})
          /\ VersionNumbers(f) = 2..files[f].current_version)
  /\ [][\A f \in DOMAIN files :
          /\ f \in DOMAIN files'
          /\ files'[f].current_version >= files[f].current_version]_vars

C33_Witness ==
  \E f \in DOMAIN files :
    /\ files[f].current_version = 3 /\ VersionNumbers(f) = {2, 3}
    /\ calls[f].conflict > 0
    /\ \A t \in VProcs : cv[t].pc = "idle"

\* C34: when initialize fails (key absent, placeholder or of the wrong length) the
\* service holds no key afterwards, and no encrypt or decrypt succeeds under a
\* configuration whose key initialize rejects.
C34_NoRejectedKey ==
  /\ (enc.eret.op = "initialize" /\ enc.eret.val = "throws") => enc.key = NoKey
  /\ (enc.eret.op \in {"encrypt", "decrypt"}
        /\ InitializeKey(enc.eret.env, NoKey).val = "throws") => enc.eret.val = "throws"

\* C35: decryptObject(encryptObject(o, F), F) under one key equals o: every listed
\* string field comes back as the same string, and fields that are not listed,
\* absent or null are left as they were by both operations.
C35_ObjectRoundTrip ==
  (enc.oret.op = "decryptObject" /\ enc.oret.dfields = enc.oret.fields
     /\ enc.oret.dkid = enc.oret.kid) =>
    /\ enc.oret.output = enc.oret.input
    /\ \A f \in FieldNames :
         (f \notin enc.oret.fields \/ enc.oret.input[f].type \in {"absent", "null"}) =>
           enc.oret.stored[f] = enc.oret.input[f]

\* C36: for a user whose role is not in allowedRoles authorize answers 403 (401
\* with no user) and does not call next, so the handler of a protected route
\* changes a file only for a request whose role is allowed.
C36_RoleEnforced ==
  /\ []((http.res.op = "authorize" /\ http.res.identifier \notin http.res.allowed) =>
          /\ http.res.status = (IF http.res.identifier = "none" THEN 401 ELSE 403)
          /\ ~http.res.next)
  /\ [][files' # files => http.res.identifier \in http.res.allowed]_vars

\* C37: in every state, whatever the interleaving of recordFailedAttempt,
\* isAccountLocked, getLockoutInfo, clearFailedAttempts and unlockAccount, an
\* identity's locked_until is set exactly when its counter of failed attempts is
\* at least the threshold, and its lockout reason is set exactly when locked_until is.
C37_RecordConsistent ==
  \A u \in Existing :
    /\ (users[u].locked_until # NULL) =
         (users[u].failed_login_attempts >= LOCKOUT_THRESHOLD)
    /\ (users[u].lockout_reason # NoReason) = (users[u].locked_until # NULL)

C37_Witness ==
  \E u \in Existing, p \in LProcs :
    /\ users[u].failed_login_attempts > LOCKOUT_THRESHOLD
    /\ users[u].locked_until # NULL /\ now > users[u].locked_until
    /\ lk[p].pc = "gli_unlock" /\ lk[p].user = u
    /\ \E q \in LProcs : lk[q].pc = "rfa_write" /\ lk[q].user = u

\* C38: a login for an identity that is locked (now < locked_until) fails whatever
\* the password, issues no token, and leaves the identity's counter of failed
\* attempts and its locked_until as they were.
C38_LockedLoginFails ==
  [][\A u \in Existing :
       (/\ lret'.op = "login" /\ lret'.user = u
        /\ lret' # lret \/ users' # users
        /\ users[u].locked_until # NULL /\ now < users[u].locked_until) =>
          /\ lret'.ret = "locked"
          /\ users'[u] = users[u]]_vars

\* C39: recordFailedAttempt on an identity that is locked (now < locked_until)
\* leaves locked_until as it is: attempts recorded during a lock do not postpone
\* the time at which the identity unlocks.
C39_LockNotPostponed ==
  [][\A p \in LProcs :
       (/\ lk[p].pc = "rfa_write" /\ lk'[p].pc = "idle"
        /\ users[lk[p].user].locked_until # NULL
        /\ lk[p].lockedUntil = users[lk[p].user].locked_until
        /\ now < users[lk[p].user].locked_until) =>
          users'[lk[p].user].locked_until = users[lk[p].user].locked_until]_vars

\* C40: for every combination of the optional filters of searchFiles the LIMIT
\* placeholder of the result query is bound to the limit given and the OFFSET
\* placeholder to the offset given, every placeholder has a value, and the
\* result holds at most limit files.
C40_LimitOffsetBound ==
  ret.op = "searchFiles" =>
    /\ ret.len0 \in 1..Len(ret.pre) /\ ret.pre[ret.len0] = "limit"
    /\ ret.len \in 1..Len(ret.pre) /\ ret.pre[ret.len] = "offset"
    /\ ret.val = "ok"
    /\ Len(ret.entries) <= ret.limit
====
